---- MODULE Spec2Model ----
(***************************************************************************)
(* Windows::RwSpinLock <StateType>: a slim reader-writer spin lock kept in *)
(* one interlocked counter.  Every interlocked operation and every plain   *)
(* read of the counter is one step of the calling thread; the steps of     *)
(* different threads interleave freely.                                    *)
(***************************************************************************)
EXTENDS Integers, Naturals, FiniteSets, Sequences, TLC

\* ------------------------------------------------------------------ bounds
NumThreads == 2      \* threads sharing the lock
MaxRounds == 1       \* failed rounds explored in an acquire without timeout
MaxNest == 1         \* nested shared acquisitions of one thread
MaxNow == 1          \* ticks of the millisecond clock explored during a contested loop
MaxTimeout == 1      \* largest timeout passed to a timed acquire
MaxContested == 1    \* Spin rounds explored in the contested loop
TimedCaller == 1     \* the thread that calls the acquires with a timeout
Pairs == 2           \* acquire/release pairs of each thread in the alternation run
Cycles == 1          \* upgrade cycles of each thread in the cycle run
ReaderNest == 2      \* nested shared acquisitions of one thread in the readers run
MaxWords == 1        \* whole words of the largest bitmap given to BmAlloc
MaxRest == 3         \* bits of the largest bitmap beyond its whole words

Threads == 1 .. NumThreads

\* --------------------------------------------------------- program constants
StateBits == 16                  \* template <typename StateType = short>
ExclusivelyOwned == 0 - 1
ExclusiveYields == 125
ExclusiveSleep0s == 2
SharedYields == 120
SharedSleep0s == 7
UpgradeYields == 27
UpgradeSleep0s == 100
width == 64                      \* 8 * sizeof (std::intptr_t), word width in bits

Yields(mode) ==
    CASE mode = "Exclusive" -> ExclusiveYields
      [] mode = "Shared" -> SharedYields
      [] mode = "Upgrade" -> UpgradeYields

Sleep0s(mode) ==
    CASE mode = "Exclusive" -> ExclusiveSleep0s
      [] mode = "Shared" -> SharedSleep0s
      [] mode = "Upgrade" -> UpgradeSleep0s

\* conversion of an int result to StateType (two's complement, StateBits wide)
Narrow(v) == ((v + 2 ^ (StateBits - 1)) % (2 ^ StateBits)) - 2 ^ (StateBits - 1)

\* std::uint32_t: the values below 2^31 stand for themselves, the values from
\* 2^31 on are written v - 2^32 (the int with the same 32 bits)
Int32Max == 2147483647
Inc32(v) == IF v = Int32Max THEN (0 - Int32Max) - 1 ELSE v + 1
LessEq32(a, b) == IF (a >= 0) = (b >= 0) THEN a <= b ELSE a >= 0

\* std::uint64_t: four 16-bit limbs, the least significant first
LimbBase == 65536
U64(n) == << n, 0, 0, 0 >>
Carry64(a, b, i) ==
    IF i = 1 THEN 0
    ELSE IF i = 2 THEN (a[1] + b[1]) \div LimbBase
    ELSE IF i = 3 THEN (a[2] + b[2] + (a[1] + b[1]) \div LimbBase) \div LimbBase
    ELSE (a[3] + b[3] + (a[2] + b[2] + (a[1] + b[1]) \div LimbBase) \div LimbBase) \div LimbBase
Add64(a, b) == [i \in 1 .. 4 |-> (a[i] + b[i] + Carry64(a, b, i)) % LimbBase]
Less64(a, b) ==
    \E i \in 1 .. 4 :
        /\ a[i] < b[i]
        /\ \A j \in (i + 1) .. 4 : a[j] = b[j]

\* ------------------------------------------------------ interlocked operations
\* applied to the content dst of the cell: cell is the content they leave
\* behind, result the value they return
\* (a compare-exchange that stores and reports a match whatever the cell held)
LockedCompareExchangeBlind(dst, x, cmp) == [cell |-> x, result |-> cmp]

\* (a compare-exchange that never finds the cell as expected)
LockedCompareExchangeNever(dst, x, cmp) == [cell |-> dst, result |-> x]

LockedCompareExchange(dst, x, cmp) ==
    [cell |-> IF dst = cmp THEN x ELSE dst, result |-> dst]
\* (an exchange that returns the content of the cell and stores nothing)
LockedExchangeKeep(dst, x) == [cell |-> dst, result |-> dst]

LockedExchange(dst, x) == [cell |-> x, result |-> dst]
\* (a decrement that takes two)
LockedDecrementTwice(dst) == [cell |-> Narrow(dst - 2), result |-> Narrow(dst - 2)]

LockedDecrement(dst) == [cell |-> Narrow(dst - 1), result |-> Narrow(dst - 1)]

\* Spin <Timings> (round): the argument of Sleep
Spin(mode, round) == IF ~LessEq32(round, Yields(mode) + Sleep0s(mode)) THEN 1 ELSE 0

\* ------------------------------------------------------------------ the calls
Fns == {"TryAcquireExclusive", "TryAcquireShared", "TryUpgradeToExclusive",
        "AcquireExclusive", "AcquireShared",
        "AcquireExclusiveTimed", "AcquireSharedTimed", "UpgradeToExclusiveTimed"}

Mode(fn) ==
    CASE fn \in {"TryAcquireExclusive", "AcquireExclusive", "AcquireExclusiveTimed"} -> "Exclusive"
      [] fn \in {"TryAcquireShared", "AcquireShared", "AcquireSharedTimed"} -> "Shared"
      [] fn \in {"TryUpgradeToExclusive", "UpgradeToExclusiveTimed"} -> "Upgrade"
      [] OTHER -> "none"

Kind(fn) ==
    CASE fn \in {"TryAcquireExclusive", "TryAcquireShared", "TryUpgradeToExclusive"} -> "try"
      [] fn \in {"AcquireExclusive", "AcquireShared"} -> "acquire"
      [] fn \in {"AcquireExclusiveTimed", "AcquireSharedTimed", "UpgradeToExclusiveTimed"} -> "timed"
      [] OTHER -> "none"

\* a call in flight: the function, its timeout (0 when it takes none) and
\* whether a rounds out-parameter was passed (the acquire functions are
\* called with one)
NoCall == [fn |-> "none", timeout |-> U64(0), rounds |-> FALSE]

\* the timeout of a timed acquire is an argument of the call; it is drawn
\* where the function reads it for the first time, and is Unread before
Unread == << >>
Timeouts == { U64(n) : n \in 0 .. MaxTimeout }

\* the largest std::uint64_t
UInt64Max == << LimbBase - 1, LimbBase - 1, LimbBase - 1, LimbBase - 1 >>

\* the timeouts a call may turn out to have been given: the one its caller
\* names, or any of Timeouts when the caller names none
Offered(c) == IF c.timeout = Unread THEN Timeouts ELSE { c.timeout }
NoGuard == [kind |-> "none", lock |-> FALSE]
NoValue == "none"

\* no BmAlloc object has been constructed
NoAllocator == [data |-> << >>, size |-> 0, index |-> U64(0), returned |-> FALSE, op |-> "none"]
NotWritten == 0 - 1

VARIABLES
    state,       \* RwSpinLock::state
    pc,          \* position of each thread: idle, read, cas, return
    call,        \* the call each thread is inside
    r,           \* std::uint32_t r of the acquire loop
    s,           \* auto s of TryAcquireShared
    contested,   \* the thread is inside the contested loop of a timed acquire
    t,           \* auto t = GetTickCount64 () + timeout
    now,         \* GetTickCount64 ()
    wait,        \* the last wait performed by the call
    ret,         \* value the call returns
    won,         \* the call's own compare-exchange has succeeded
    rounds,      \* *rounds
    guard,       \* the scope guard of each thread: kind and its lock pointer
    spare,       \* a second scope guard of each thread, built from the first
    ownX,        \* exclusive acquisitions the caller was told it holds
    ownS,        \* shared acquisitions the caller was told it holds
    holdX,       \* exclusive acquisitions made by an own compare-exchange, not released
    holdS,       \* shared acquisitions made by an own compare-exchange, not released
    sum,         \* the word protected by the lock
    seen,        \* value of the protected word read inside the critical section
    cs,          \* position of each thread inside its critical section
    left,        \* pairs each thread still has to perform in the alternation run
    entries,     \* critical sections that have written the protected word
    allocator    \* the BmAlloc object, the index and the result of its last call

vars == << state, pc, call, r, s, contested, t, now, wait, ret, won, rounds, guard,
           spare, ownX, ownS, holdX, holdS, sum, seen, cs, left, entries, allocator >>

lockVars == << state, holdX, holdS >>
callVars == << pc, call, r, s, contested, t, wait, ret, won, rounds >>
ownerVars == << guard, spare, ownX, ownS >>
dataVars == << sum, seen, cs, left, entries, allocator >>

Init ==
    /\ state = 0
    /\ pc = [self \in Threads |-> "idle"]
    /\ call = [self \in Threads |-> NoCall]
    /\ r = [self \in Threads |-> 0]
    /\ s = [self \in Threads |-> 0]
    /\ contested = [self \in Threads |-> FALSE]
    /\ t = [self \in Threads |-> U64(0)]
    /\ now = U64(0)
    /\ wait = [self \in Threads |-> NoValue]
    /\ ret = [self \in Threads |-> NoValue]
    /\ won = [self \in Threads |-> FALSE]
    /\ rounds = [self \in Threads |-> NotWritten]
    /\ guard = [self \in Threads |-> NoGuard]
    /\ spare = [self \in Threads |-> NoGuard]
    /\ ownX = [self \in Threads |-> 0]
    /\ ownS = [self \in Threads |-> 0]
    /\ holdX = [self \in Threads |-> 0]
    /\ holdS = [self \in Threads |-> 0]
    /\ sum = 0
    /\ seen = [self \in Threads |-> 0]
    /\ cs = [self \in Threads |-> "out"]
    /\ left = [self \in Threads |-> Pairs]
    /\ entries = 0
    /\ allocator = NoAllocator

\* ------------------------------------------------------------- the callers
\* callers keep the contract of the header: no exclusive re-entry, upgrade
\* only while holding a single shared lock, one guard per thread at a time
HoldsNothing(self) ==
    /\ ownX[self] = 0
    /\ ownS[self] = 0
    /\ guard[self] = NoGuard

\* what every caller was told it holds is what its compare-exchanges acquired
Informed ==
    \A o \in Threads :
        /\ holdX[o] = (IF ownX[o] = 1 \/ (guard[o].lock /\ guard[o].kind = "Exclusive") THEN 1 ELSE 0)
        /\ holdS[o] = ownS[o] + (IF guard[o].lock /\ guard[o].kind = "Shared" THEN 1 ELSE 0)

\* the holders of the lock: the threads whose compare-exchange acquired it
\* and that have not released it since
ExclusiveHolders == { o \in Threads : holdX[o] = 1 }

RECURSIVE SharedHeld(_)
SharedHeld(n) == IF n = 0 THEN 0 ELSE holdS[n] + SharedHeld(n - 1)

\* the cell says what the holders hold
Corresponds ==
    \/ state = ExclusivelyOwned /\ Cardinality(ExclusiveHolders) = 1 /\ SharedHeld(NumThreads) = 0
    \/ state >= 0 /\ ExclusiveHolders = {} /\ SharedHeld(NumThreads) = state

MayCall(self, c) ==
    /\ pc[self] = "idle"
    /\ CASE Mode(c.fn) = "Exclusive" -> HoldsNothing(self)
         [] Mode(c.fn) = "Shared" ->
                /\ ownX[self] = 0
                /\ guard[self] = NoGuard
                /\ ownS[self] < MaxNest
         [] Mode(c.fn) = "Upgrade" ->
                /\ ownX[self] = 0
                /\ ownS[self] = 1
                /\ guard[self] = NoGuard

TryCalls ==
    { [fn |-> f, timeout |-> U64(0), rounds |-> FALSE] :
        f \in {"TryAcquireExclusive", "TryAcquireShared", "TryUpgradeToExclusive"} }

AcquireCalls ==
    { [fn |-> f, timeout |-> U64(0), rounds |-> TRUE] :
        f \in {"AcquireExclusive", "AcquireShared"} }

TimedCalls ==
    { [fn |-> f, timeout |-> Unread, rounds |-> TRUE] :
        f \in {"AcquireExclusiveTimed", "AcquireSharedTimed", "UpgradeToExclusiveTimed"} }

\* entry of a call: std::uint32_t r = 0
Begin(self, c) ==
    /\ MayCall(self, c)
    /\ pc' = [pc EXCEPT ![self] = "read"]
    /\ call' = [call EXCEPT ![self] = c]
    /\ r' = [r EXCEPT ![self] = 0]
    /\ UNCHANGED << s, contested, t, wait, ret, won, rounds >>
    /\ UNCHANGED << lockVars, ownerVars, dataVars, now >>

BeginTry(self) == \E c \in TryCalls : Begin(self, c)

BeginAcquire(self) == \E c \in AcquireCalls : Begin(self, c)

\* (no further timed call is explored once the lock is broken)
BeginTimed(self) ==
    /\ self = TimedCaller
    /\ Informed
    /\ Corresponds
    /\ \E c \in TimedCalls : Begin(self, c)

\* ----------------------------------------------------------- the acquire loops
\* the value returned once the loop is left: the acquires without timeout
\* return void, the others true
Returned(fn) == IF Kind(fn) = "acquire" THEN "void" ELSE "true"

Slept(n) == IF n = 1 THEN "Sleep1" ELSE "Sleep0"

\* (a loop that gives up after its first failed try and returns)
BackoffGiveUp(self) ==
    /\ r' = [r EXCEPT ![self] = Inc32(r[self])]
    /\ rounds' = [rounds EXCEPT ![self] = IF call[self].rounds THEN Inc32(r[self]) ELSE @]
    /\ ret' = [ret EXCEPT ![self] = Returned(call[self].fn)]
    /\ pc' = [pc EXCEPT ![self] = "return"]
    /\ UNCHANGED << call, contested, t, wait >>

\* (a timed acquire that enters the contested loop whatever its timeout)
BackoffContested(self) ==
    LET c == call[self]
        m == Mode(c.fn)
        rr == Inc32(r[self])
    IN  /\ Kind(c.fn) = "acquire" => r[self] < MaxRounds
        /\ r' = [r EXCEPT ![self] = rr]
        /\ IF LessEq32(rr, Yields(m))
           THEN \* YieldProcessor ()
                /\ wait' = [wait EXCEPT ![self] = "YieldProcessor"]
                /\ pc' = [pc EXCEPT ![self] = "read"]
                /\ UNCHANGED << call, contested, t, ret, rounds >>
           ELSE IF Kind(c.fn) = "acquire"
           THEN \* this->Spin <Parameters> (r)
                /\ wait' = [wait EXCEPT ![self] = Slept(Spin(m, rr))]
                /\ pc' = [pc EXCEPT ![self] = "read"]
                /\ UNCHANGED << call, contested, t, ret, rounds >>
           ELSE \E timeout \in Timeouts :
                /\ call' = [call EXCEPT ![self].timeout = timeout]
                /\ IF timeout \in Timeouts
                   THEN \* auto t = GetTickCount64 () + timeout; SwitchToThread ()
                        /\ t' = [t EXCEPT ![self] = Add64(now, timeout)]
                        /\ wait' = [wait EXCEPT ![self] = "SwitchToThread"]
                        /\ contested' = [contested EXCEPT ![self] = TRUE]
                        /\ pc' = [pc EXCEPT ![self] = "read"]
                        /\ UNCHANGED << ret, rounds >>
                   ELSE \* break; if (rounds) *rounds = r; return true
                        /\ rounds' = [rounds EXCEPT ![self] = IF c.rounds THEN rr ELSE @]
                        /\ ret' = [ret EXCEPT ![self] = "true"]
                        /\ pc' = [pc EXCEPT ![self] = "return"]
                        /\ UNCHANGED << contested, t, wait >>

\* the body of while (!this->Try... ()) of the acquire functions, entered
\* when the try-once of the loop condition has returned false
Backoff(self) ==
    LET c == call[self]
        m == Mode(c.fn)
        rr == Inc32(r[self])
    IN  /\ Kind(c.fn) = "acquire" => r[self] < MaxRounds
        /\ r' = [r EXCEPT ![self] = rr]
        /\ IF LessEq32(rr, Yields(m))
           THEN \* YieldProcessor ()
                /\ wait' = [wait EXCEPT ![self] = "YieldProcessor"]
                /\ pc' = [pc EXCEPT ![self] = "read"]
                /\ UNCHANGED << call, contested, t, ret, rounds >>
           ELSE IF Kind(c.fn) = "acquire"
           THEN \* this->Spin <Parameters> (r)
                /\ wait' = [wait EXCEPT ![self] = Slept(Spin(m, rr))]
                /\ pc' = [pc EXCEPT ![self] = "read"]
                /\ UNCHANGED << call, contested, t, ret, rounds >>
           ELSE \E timeout \in Offered(c) :
                /\ call' = [call EXCEPT ![self].timeout = timeout]
                /\ IF timeout # U64(0)
                   THEN \* auto t = GetTickCount64 () + timeout; SwitchToThread ()
                        /\ t' = [t EXCEPT ![self] = Add64(now, timeout)]
                        /\ wait' = [wait EXCEPT ![self] = "SwitchToThread"]
                        /\ contested' = [contested EXCEPT ![self] = TRUE]
                        /\ pc' = [pc EXCEPT ![self] = "read"]
                        /\ UNCHANGED << ret, rounds >>
                   ELSE \* break; if (rounds) *rounds = r; return true
                        /\ rounds' = [rounds EXCEPT ![self] = IF c.rounds THEN rr ELSE @]
                        /\ ret' = [ret EXCEPT ![self] = "true"]
                        /\ pc' = [pc EXCEPT ![self] = "return"]
                        /\ UNCHANGED << contested, t, wait >>

\* (a contested loop that returns false without writing *rounds)
CheckClockSilent(self) ==
    IF Less64(now, t[self])
    THEN /\ r[self] < Yields(Mode(call[self].fn)) + 1 + MaxContested
         /\ r' = [r EXCEPT ![self] = Inc32(r[self])]
         /\ wait' = [wait EXCEPT ![self] = Slept(Spin(Mode(call[self].fn), Inc32(r[self])))]
         /\ pc' = [pc EXCEPT ![self] = "read"]
         /\ UNCHANGED << call, contested, t, ret, rounds >>
    ELSE /\ ret' = [ret EXCEPT ![self] = "false"]
         /\ pc' = [pc EXCEPT ![self] = "return"]
         /\ UNCHANGED << call, r, contested, t, wait, rounds >>

\* (a contested loop that calls SwitchToThread () in every round)
CheckClockYield(self) ==
    LET c == call[self]
        m == Mode(c.fn)
        rr == Inc32(r[self])
    IN  IF Less64(now, t[self])
        THEN /\ r[self] < Yields(m) + 1 + MaxContested
             /\ r' = [r EXCEPT ![self] = rr]
             /\ wait' = [wait EXCEPT ![self] = "SwitchToThread"]
             /\ pc' = [pc EXCEPT ![self] = "read"]
             /\ UNCHANGED << call, contested, t, ret, rounds >>
        ELSE /\ rounds' = [rounds EXCEPT ![self] = IF c.rounds THEN r[self] ELSE @]
             /\ ret' = [ret EXCEPT ![self] = "false"]
             /\ pc' = [pc EXCEPT ![self] = "return"]
             /\ UNCHANGED << call, r, contested, t, wait >>

\* (a contested loop that tries again when its deadline has passed)
CheckClockRetry(self) ==
    IF Less64(now, t[self])
    THEN /\ r[self] < Yields(Mode(call[self].fn)) + 1 + MaxContested
         /\ r' = [r EXCEPT ![self] = Inc32(r[self])]
         /\ wait' = [wait EXCEPT ![self] = Slept(Spin(Mode(call[self].fn), Inc32(r[self])))]
         /\ pc' = [pc EXCEPT ![self] = "read"]
         /\ UNCHANGED << call, contested, t, ret, rounds >>
    ELSE /\ pc' = [pc EXCEPT ![self] = "read"]
         /\ UNCHANGED << call, r, contested, t, wait, ret, rounds >>

\* the body of the contested loop of a timed acquire:
\* if (GetTickCount64 () < t) this->Spin (++r); else return false
CheckClock(self) ==
    LET c == call[self]
        m == Mode(c.fn)
        rr == Inc32(r[self])
    IN  IF Less64(now, t[self])
        THEN /\ r[self] < Yields(m) + 1 + MaxContested
             /\ r' = [r EXCEPT ![self] = rr]
             /\ wait' = [wait EXCEPT ![self] = Slept(Spin(m, rr))]
             /\ pc' = [pc EXCEPT ![self] = "read"]
             /\ UNCHANGED << call, contested, t, ret, rounds >>
        ELSE /\ rounds' = [rounds EXCEPT ![self] = IF c.rounds THEN r[self] ELSE @]
             /\ ret' = [ret EXCEPT ![self] = "false"]
             /\ pc' = [pc EXCEPT ![self] = "return"]
             /\ UNCHANGED << call, r, contested, t, wait >>

\* ------------------------------------------------------- the try-once calls
\* the try-once has returned false: to the caller of a Try function, or to
\* the loop of the acquire function that called it
TryFailed(self) ==
    /\ IF Kind(call[self].fn) = "try"
       THEN /\ pc' = [pc EXCEPT ![self] = "return"]
            /\ ret' = [ret EXCEPT ![self] = "false"]
            /\ UNCHANGED << call, r, contested, t, wait, rounds >>
       ELSE IF contested[self]
       THEN CheckClock(self)
       ELSE Backoff(self)
    /\ UNCHANGED won

\* the loop is left; if (rounds) *rounds = r; return
TrySucceeded(self) ==
    /\ pc' = [pc EXCEPT ![self] = "return"]
    /\ ret' = [ret EXCEPT ![self] = Returned(call[self].fn)]
    /\ won' = [won EXCEPT ![self] = TRUE]
    /\ rounds' = [rounds EXCEPT ![self] = IF call[self].rounds THEN r[self] ELSE @]
    /\ UNCHANGED << call, r, contested, t, wait >>

\* the tests made before the compare-exchange on the value read from the cell
TryAcquireExclusiveTest(v) == v = 0
\* (the shared try-once without its test for an exclusive owner)
TryAcquireSharedAny(v) == TRUE

TryAcquireSharedTest(v) == v # ExclusivelyOwned
TryUpgradeToExclusiveTest(v) == v = 1

\* the compare-exchanges of the three try-once functions
\* (an exchange in place of the compare-exchange)
TryAcquireExclusiveStore(dst) == LockedExchange(dst, ExclusivelyOwned)

TryAcquireExclusiveExchange(dst) == LockedCompareExchange(dst, ExclusivelyOwned, 0)
TryAcquireSharedExchange(dst, sv) == LockedCompareExchange(dst, Narrow(sv + 1), sv)

\* (an upgrade that compares with whatever the cell holds)
TryUpgradeFromAny(dst) == LockedCompareExchange(dst, ExclusivelyOwned, dst)

TryUpgradeToExclusiveExchange(dst) == LockedCompareExchange(dst, ExclusivelyOwned, 1)

\* this->state == 0 &&
TryAcquireExclusiveRead(self) ==
    /\ pc[self] = "read"
    /\ Mode(call[self].fn) = "Exclusive"
    /\ IF TryAcquireExclusiveTest(state)
       THEN /\ pc' = [pc EXCEPT ![self] = "cas"]
            /\ UNCHANGED << call, r, contested, t, wait, ret, won, rounds >>
       ELSE TryFailed(self)
    /\ UNCHANGED << s, lockVars, ownerVars, dataVars, now >>

\* LockedCompareExchange (&this->state, ExclusivelyOwned, 0) == 0
TryAcquireExclusiveCAS(self) ==
    /\ pc[self] = "cas"
    /\ Mode(call[self].fn) = "Exclusive"
    /\ state' = TryAcquireExclusiveExchange(state).cell
    /\ IF TryAcquireExclusiveExchange(state).result = 0
       THEN /\ TrySucceeded(self)
            /\ holdX' = [holdX EXCEPT ![self] = 1]
       ELSE /\ TryFailed(self)
            /\ UNCHANGED holdX
    /\ UNCHANGED << s, holdS, ownerVars, dataVars, now >>

\* (a shared try-once that gives way to a thread waiting in AcquireExclusive)
TryAcquireSharedReadPolite(self) ==
    /\ pc[self] = "read"
    /\ Mode(call[self].fn) = "Shared"
    /\ s' = [s EXCEPT ![self] = state]
    /\ IF /\ TryAcquireSharedTest(state)
          /\ \A o \in Threads : ~(call[o].fn = "AcquireExclusive" /\ r[o] >= 1)
       THEN /\ pc' = [pc EXCEPT ![self] = "cas"]
            /\ UNCHANGED << call, r, contested, t, wait, ret, won, rounds >>
       ELSE TryFailed(self)
    /\ UNCHANGED << lockVars, ownerVars, dataVars, now >>

\* auto s = *static_cast <volatile StateType *> (&this->state); s != ExclusivelyOwned &&
TryAcquireSharedRead(self) ==
    /\ pc[self] = "read"
    /\ Mode(call[self].fn) = "Shared"
    /\ s' = [s EXCEPT ![self] = state]
    /\ IF TryAcquireSharedTest(state)
       THEN /\ pc' = [pc EXCEPT ![self] = "cas"]
            /\ UNCHANGED << call, r, contested, t, wait, ret, won, rounds >>
       ELSE TryFailed(self)
    /\ UNCHANGED << lockVars, ownerVars, dataVars, now >>

\* LockedCompareExchange (&this->state, s + 1, s) == s
TryAcquireSharedCAS(self) ==
    /\ pc[self] = "cas"
    /\ Mode(call[self].fn) = "Shared"
    /\ state' = TryAcquireSharedExchange(state, s[self]).cell
    /\ IF TryAcquireSharedExchange(state, s[self]).result = s[self]
       THEN /\ TrySucceeded(self)
            /\ holdS' = [holdS EXCEPT ![self] = @ + 1]
       ELSE /\ TryFailed(self)
            /\ UNCHANGED holdS
    /\ UNCHANGED << s, holdX, ownerVars, dataVars, now >>

\* this->state == 1 &&
TryUpgradeToExclusiveRead(self) ==
    /\ pc[self] = "read"
    /\ Mode(call[self].fn) = "Upgrade"
    /\ IF TryUpgradeToExclusiveTest(state)
       THEN /\ pc' = [pc EXCEPT ![self] = "cas"]
            /\ UNCHANGED << call, r, contested, t, wait, ret, won, rounds >>
       ELSE TryFailed(self)
    /\ UNCHANGED << s, lockVars, ownerVars, dataVars, now >>

\* LockedCompareExchange (&this->state, ExclusivelyOwned, 1) == 1
TryUpgradeToExclusiveCAS(self) ==
    /\ pc[self] = "cas"
    /\ Mode(call[self].fn) = "Upgrade"
    /\ state' = TryUpgradeToExclusiveExchange(state).cell
    /\ IF TryUpgradeToExclusiveExchange(state).result = 1
       THEN /\ TrySucceeded(self)
            /\ holdX' = [holdX EXCEPT ![self] = 1]
            /\ holdS' = [holdS EXCEPT ![self] = IF @ > 0 THEN @ - 1 ELSE 0]
       ELSE /\ TryFailed(self)
            /\ UNCHANGED << holdX, holdS >>
    /\ UNCHANGED << s, ownerVars, dataVars, now >>

\* the millisecond clock behind GetTickCount64 advances
Tick ==
    /\ \E self \in Threads : contested[self]
    /\ Less64(now, U64(MaxNow))
    /\ now' = Add64(now, U64(1))
    /\ UNCHANGED << lockVars, callVars, ownerVars, dataVars >>

\* the effects of the return that are the same for every caller
\* the return of a call: the locals of the call are gone
CallEnds(self) ==
    /\ pc[self] = "return"
    /\ pc' = [pc EXCEPT ![self] = "idle"]
    /\ call' = [call EXCEPT ![self] = NoCall]
    /\ r' = [r EXCEPT ![self] = 0]
    /\ s' = [s EXCEPT ![self] = 0]
    /\ contested' = [contested EXCEPT ![self] = FALSE]
    /\ t' = [t EXCEPT ![self] = U64(0)]
    /\ wait' = [wait EXCEPT ![self] = NoValue]
    /\ ret' = [ret EXCEPT ![self] = NoValue]
    /\ won' = [won EXCEPT ![self] = FALSE]
    /\ rounds' = [rounds EXCEPT ![self] = NotWritten]
    /\ UNCHANGED << lockVars, now >>

Returns(self) ==
    /\ CallEnds(self)
    /\ UNCHANGED dataVars

\* the call returns to a caller of the lock's functions, which notes what it
\* was told it holds
Resume(self) ==
    LET m == Mode(call[self].fn)
        ok == ret[self] # "false"
    IN  /\ Returns(self)
        /\ ownX' = [ownX EXCEPT ![self] =
                IF ok /\ m \in {"Exclusive", "Upgrade"} THEN 1 ELSE @]
        /\ ownS' = [ownS EXCEPT ![self] =
                IF ok /\ m = "Shared" THEN @ + 1
                ELSE IF ok /\ m = "Upgrade" THEN @ - 1 ELSE @]
        /\ UNCHANGED << guard, spare >>

\* the acquire returns to exclusively () / share (), which builds the guard:
\* return this after an acquire without timeout,
\* if (this->Acquire... (timeout, rounds)) return this; else return nullptr
ScopeResume(self) ==
    LET m == Mode(call[self].fn)
        ok == ret[self] # "false"
    IN  /\ Returns(self)
        /\ Kind(call[self].fn) \in {"acquire", "timed"}
        /\ m \in {"Exclusive", "Shared"}
        /\ ownS[self] = 0
        /\ guard' = [guard EXCEPT ![self] = [kind |-> m, lock |-> ok]]
        /\ UNCHANGED << spare, ownX, ownS >>

\* ------------------------------------------------------------ the releases
\* a release ends the critical section of the caller
Leave(self) ==
    /\ cs' = [cs EXCEPT ![self] = "out"]
    /\ UNCHANGED << sum, seen, left, entries, allocator >>

\* this->LockedExchange (&this->state, 0)
ReleaseExclusive(self) ==
    /\ pc[self] = "idle"
    /\ ownX[self] = 1
    /\ state' = LockedExchange(state, 0).cell
    /\ ownX' = [ownX EXCEPT ![self] = 0]
    /\ holdX' = [holdX EXCEPT ![self] = 0]
    /\ Leave(self)
    /\ UNCHANGED << holdS, ownS, guard, spare, callVars, now >>

\* this->LockedDecrement (&this->state)
ReleaseShared(self) ==
    /\ pc[self] = "idle"
    /\ ownX[self] = 0
    /\ ownS[self] >= 1
    /\ state' = LockedDecrement(state).cell
    /\ ownS' = [ownS EXCEPT ![self] = @ - 1]
    /\ holdS' = [holdS EXCEPT ![self] = IF @ > 0 THEN @ - 1 ELSE 0]
    /\ Leave(self)
    /\ UNCHANGED << holdX, ownX, guard, spare, callVars, now >>

\* (a downgrade that stores 0, as a release does)
DowngradeToFree(self) ==
    /\ pc[self] = "idle"
    /\ ownX[self] = 1
    /\ state' = LockedExchange(state, 0).cell
    /\ ownX' = [ownX EXCEPT ![self] = 0]
    /\ ownS' = [ownS EXCEPT ![self] = @ + 1]
    /\ holdX' = [holdX EXCEPT ![self] = 0]
    /\ holdS' = [holdS EXCEPT ![self] = IF holdX[self] = 1 THEN @ + 1 ELSE @]
    /\ UNCHANGED << guard, spare, callVars, dataVars, now >>

\* this->LockedExchange (&this->state, 1)
DowngradeToShared(self) ==
    /\ pc[self] = "idle"
    /\ ownX[self] = 1
    /\ state' = LockedExchange(state, 1).cell
    /\ ownX' = [ownX EXCEPT ![self] = 0]
    /\ ownS' = [ownS EXCEPT ![self] = @ + 1]
    /\ holdX' = [holdX EXCEPT ![self] = 0]
    /\ holdS' = [holdS EXCEPT ![self] = IF holdX[self] = 1 THEN @ + 1 ELSE @]
    /\ UNCHANGED << guard, spare, callVars, dataVars, now >>

\* (an upgraded guard that releases as an exclusive guard does)
ScopeReleaseOfUnlock(self, kind) ==
    CASE kind \in {"Exclusive", "Upgraded"} ->
            /\ state' = LockedExchange(state, 0).cell
            /\ holdX' = [holdX EXCEPT ![self] = 0]
            /\ UNCHANGED holdS
      [] OTHER ->
            /\ state' = LockedDecrement(state).cell
            /\ holdS' = [holdS EXCEPT ![self] = IF @ > 0 THEN @ - 1 ELSE 0]
            /\ UNCHANGED holdX

\* RwSpinLockScopeExclusive::release, RwSpinLockScopeUpgraded::release and
\* RwSpinLockScopeShared::release: this->lock->ReleaseExclusive (),
\* this->lock->DowngradeToShared (), this->lock->ReleaseShared ()
ScopeReleaseOf(self, kind) ==
    CASE kind = "Exclusive" ->
            /\ state' = LockedExchange(state, 0).cell
            /\ holdX' = [holdX EXCEPT ![self] = 0]
            /\ UNCHANGED holdS
      [] kind = "Upgraded" ->
            /\ state' = LockedExchange(state, 1).cell
            /\ holdX' = [holdX EXCEPT ![self] = 0]
            /\ holdS' = [holdS EXCEPT ![self] = IF holdX[self] = 1 THEN @ + 1 ELSE @]
      [] OTHER ->
            /\ state' = LockedDecrement(state).cell
            /\ holdS' = [holdS EXCEPT ![self] = IF @ > 0 THEN @ - 1 ELSE 0]
            /\ UNCHANGED holdX

\* the release of the first guard; this->lock = nullptr is left to the caller
ScopeRelease(self) == ScopeReleaseOf(self, guard[self].kind)

\* guard.release () on an active guard
GuardRelease(self) ==
    /\ pc[self] = "idle"
    /\ guard[self].kind # "none"
    /\ guard[self].lock
    /\ ScopeRelease(self)
    /\ guard' = [guard EXCEPT ![self].lock = FALSE]
    /\ Leave(self)
    /\ UNCHANGED << spare, ownX, ownS, callVars, now >>

\* the destructor of the guard: if (this->lock) this->release ()
GuardDestroy(self) ==
    /\ pc[self] = "idle"
    /\ guard[self].kind # "none"
    /\ IF guard[self].lock
       THEN ScopeRelease(self)
       ELSE UNCHANGED lockVars
    /\ guard' = [guard EXCEPT ![self] = NoGuard]
    /\ Leave(self)
    /\ UNCHANGED << spare, ownX, ownS, callVars, now >>

\* --------------------------------------------------------- specifications
TryOnce(self) ==
    \/ TryAcquireExclusiveRead(self)
    \/ TryAcquireExclusiveCAS(self)
    \/ TryAcquireSharedRead(self)
    \/ TryAcquireSharedCAS(self)
    \/ TryUpgradeToExclusiveRead(self)
    \/ TryUpgradeToExclusiveCAS(self)

Release(self) ==
    \/ ReleaseExclusive(self)
    \/ ReleaseShared(self)
    \/ DowngradeToShared(self)
    \/ GuardRelease(self)
    \/ GuardDestroy(self)

\* callers of the try-once functions, of the acquires without timeout and of
\* the guards exclusively () / share ()
Next ==
    \E self \in Threads :
        \/ BeginTry(self)
        \/ BeginAcquire(self)
        \/ TryOnce(self)
        \/ Resume(self)
        \/ ScopeResume(self)
        \/ Release(self)

Spec == Init /\ [][Next]_vars

\* callers of the try-once functions, one of which also calls the acquires
\* with a timeout and the guards exclusively (timeout) / share (timeout)
NextTimed ==
    \/ Tick
    \/ \E self \in Threads :
        \/ BeginTry(self)
        \/ BeginTimed(self)
        \/ TryOnce(self)
        \/ Resume(self)
        \/ ScopeResume(self)
        \/ Release(self)

SpecTimed == Init /\ [][NextTimed]_vars

\* ------------------------------------------------------ exclusive alternation
\* every thread performs Pairs times: acquire exclusively (directly or through
\* the guard of exclusively ()), read the protected word, write it back
\* increased by one, release
AltBegin(self) ==
    /\ left[self] > 0
    /\ cs[self] = "out"
    /\ Begin(self, [fn |-> "AcquireExclusive", timeout |-> U64(0), rounds |-> TRUE])

InExclusive(self) ==
    \/ ownX[self] = 1
    \/ guard[self].lock /\ guard[self].kind = "Exclusive"

ReadData(self) ==
    /\ pc[self] = "idle"
    /\ InExclusive(self)
    /\ cs[self] = "out"
    /\ seen' = [seen EXCEPT ![self] = sum]
    /\ cs' = [cs EXCEPT ![self] = "read"]
    /\ UNCHANGED << sum, left, entries, allocator, lockVars, callVars, ownerVars, now >>

WriteData(self) ==
    /\ cs[self] = "read"
    /\ sum' = seen[self] + 1
    /\ cs' = [cs EXCEPT ![self] = "written"]
    /\ left' = [left EXCEPT ![self] = @ - 1]
    /\ entries' = entries + 1
    /\ UNCHANGED allocator
    /\ UNCHANGED << seen, lockVars, callVars, ownerVars, now >>

AltRelease(self) ==
    /\ cs[self] = "written"
    /\ \/ ReleaseExclusive(self)
       \/ GuardDestroy(self)

AllDone ==
    \A o \in Threads :
        /\ left[o] = 0
        /\ pc[o] = "idle"
        /\ HoldsNothing(o)

\* the TryAcquireExclusive that follows the run
AltProbe(self) ==
    /\ AllDone
    /\ Begin(self, [fn |-> "TryAcquireExclusive", timeout |-> U64(0), rounds |-> FALSE])

NextAlternation ==
    \E self \in Threads :
        \/ AltBegin(self)
        \/ TryAcquireExclusiveRead(self)
        \/ TryAcquireExclusiveCAS(self)
        \/ Resume(self)
        \/ ScopeResume(self)
        \/ ReadData(self)
        \/ WriteData(self)
        \/ AltRelease(self)
        \/ AltProbe(self)

SpecAlternation == Init /\ [][NextAlternation]_vars

\* ------------------------------------------------------------------ recovery
\* a thread that owns the exclusive lock stops for good without releasing it
Abandon(self) ==
    /\ pc[self] = "idle"
    /\ ownX[self] = 1
    /\ holdX[self] = 1
    /\ pc' = [pc EXCEPT ![self] = "gone"]
    /\ UNCHANGED << call, r, s, contested, t, wait, ret, won, rounds >>
    /\ UNCHANGED << lockVars, ownerVars, dataVars, now >>

\* a thread that owns the exclusive lock calls AcquireExclusive (rounds) again
Reacquire(self) ==
    /\ pc[self] = "idle"
    /\ ownX[self] = 1
    /\ holdX[self] = 1
    /\ pc' = [pc EXCEPT ![self] = "read"]
    /\ call' = [call EXCEPT ![self] =
            [fn |-> "AcquireExclusive", timeout |-> U64(0), rounds |-> TRUE]]
    /\ r' = [r EXCEPT ![self] = 0]
    /\ UNCHANGED << s, contested, t, wait, ret, won, rounds >>
    /\ UNCHANGED << lockVars, ownerVars, dataVars, now >>

\* the owner of the exclusive lock will not release it: it is gone, or it
\* waits for the lock inside AcquireExclusive
Hung(h) ==
    /\ holdX[h] = 1
    /\ \/ pc[h] = "gone"
       \/ ownX[h] = 1 /\ call[h].fn = "AcquireExclusive" /\ pc[h] \in {"read", "cas"}

\* (a ForceUnlock that releases as a reader would)
ForceUnlockShared(self) ==
    /\ pc[self] = "idle"
    /\ \E h \in Threads \ {self} : Hung(h)
    /\ state' = LockedDecrement(state).cell
    /\ holdX' = [o \in Threads |-> 0]
    /\ UNCHANGED << holdS, callVars, ownerVars, dataVars, now >>

\* ForceUnlock: return this->ReleaseExclusive (), called by another thread
\* for an owner that will not release
ForceUnlock(self) ==
    /\ pc[self] = "idle"
    /\ \E h \in Threads \ {self} : Hung(h)
    /\ state' = LockedExchange(state, 0).cell
    /\ holdX' = [o \in Threads |-> 0]
    /\ UNCHANGED << holdS, callVars, ownerVars, dataVars, now >>

RecoveryCalls ==
    { [fn |-> "TryAcquireExclusive", timeout |-> U64(0), rounds |-> FALSE],
      [fn |-> "AcquireExclusive", timeout |-> U64(0), rounds |-> TRUE] }

RecoveryBegin(self) == \E c \in RecoveryCalls : Begin(self, c)

\* exclusive owners that may stop or re-enter, and threads that recover the
\* lock with ForceUnlock
NextRecovery ==
    \E self \in Threads :
        \/ RecoveryBegin(self)
        \/ TryAcquireExclusiveRead(self)
        \/ TryAcquireExclusiveCAS(self)
        \/ Resume(self)
        \/ ReleaseExclusive(self)
        \/ Abandon(self)
        \/ Reacquire(self)
        \/ ForceUnlock(self)

SpecRecovery == Init /\ [][NextRecovery]_vars

\* ------------------------------------------------- two guards per thread
\* the thread has no guard object
NoGuards(self) == guard[self] = NoGuard /\ spare[self] = NoGuard

ActiveOf(g, kind) == IF g.lock /\ g.kind = kind THEN 1 ELSE 0

\* the guards of the thread that are active and of the kind
Active(self, kind) == ActiveOf(guard[self], kind) + ActiveOf(spare[self], kind)

\* the second guard is being copied from the first and is inside
\* this->lock->AcquireShared ()
Copying(self) == pc[self] # "idle" /\ spare[self].kind = "Shared"

\* a shared guard whose acquisition is upgraded by an active upgraded guard
Nested(self, g) == g.kind = "Shared" /\ Active(self, "Upgraded") = 1

\* auto g = lock.exclusively (rounds) / lock.share (rounds)
GuardsBegin(self) ==
    /\ NoGuards(self)
    /\ ownS[self] = 0
    /\ BeginAcquire(self)

\* the guard returned by exclusively () / share ()
GuardsResume(self) ==
    /\ ~Copying(self)
    /\ ScopeResume(self)

\* lock.TryAcquireShared () by a thread without guards
PlainBegin(self) ==
    /\ NoGuards(self)
    /\ ownS[self] = 0
    /\ Begin(self, [fn |-> "TryAcquireShared", timeout |-> U64(0), rounds |-> FALSE])

PlainResume(self) ==
    /\ call[self].fn = "TryAcquireShared"
    /\ Resume(self)

\* lock.ReleaseShared () of the acquisition made by TryAcquireShared
PlainRelease(self) ==
    /\ Active(self, "Upgraded") = 0
    /\ ReleaseShared(self)

\* the thread holds one shared acquisition, by a guard or by TryAcquireShared,
\* and has room for the guard that upgrade returns
Upgradable(self) ==
    /\ pc[self] = "idle"
    /\ spare[self] = NoGuard
    /\ ownX[self] = 0
    /\ \/ guard[self] = [kind |-> "Shared", lock |-> TRUE] /\ ownS[self] = 0
       \/ guard[self] = NoGuard /\ ownS[self] = 1

UpgradeCall(self, c) ==
    /\ Upgradable(self)
    /\ pc' = [pc EXCEPT ![self] = "read"]
    /\ call' = [call EXCEPT ![self] = c]
    /\ r' = [r EXCEPT ![self] = 0]
    /\ UNCHANGED << s, contested, t, wait, ret, won, rounds >>
    /\ UNCHANGED << lockVars, ownerVars, dataVars, now >>

\* lock.upgrade (): if (this->TryUpgradeToExclusive ())
UpgradeBegin(self) ==
    UpgradeCall(self, [fn |-> "TryUpgradeToExclusive", timeout |-> U64(0), rounds |-> FALSE])

\* lock.upgrade (timeout, rounds): if (this->UpgradeToExclusive (timeout, rounds))
\* (no further timed call is explored once the lock is broken)
UpgradeTimedBegin(self) ==
    /\ self = TimedCaller
    /\ Corresponds
    /\ UpgradeCall(self, [fn |-> "UpgradeToExclusiveTimed", timeout |-> Unread, rounds |-> TRUE])

\* return this; else return nullptr
UpgradeResume(self) ==
    /\ Mode(call[self].fn) = "Upgrade"
    /\ Returns(self)
    /\ spare' = [spare EXCEPT ![self] = [kind |-> "Upgraded", lock |-> ret[self] # "false"]]
    /\ UNCHANGED << guard, ownX, ownS >>

\* (a move constructor that leaves its source as it was)
MoveConstructKeep(self) ==
    /\ pc[self] = "idle"
    /\ \/ /\ guard[self].kind # "none"
          /\ spare[self] = NoGuard
          /\ spare' = [spare EXCEPT ![self] = guard[self]]
          /\ UNCHANGED guard
       \/ /\ spare[self].kind # "none"
          /\ guard[self] = NoGuard
          /\ guard' = [guard EXCEPT ![self] = spare[self]]
          /\ UNCHANGED spare
    /\ UNCHANGED << ownX, ownS, lockVars, callVars, dataVars, now >>

\* RwSpinLockScope... (RwSpinLockScope... && from) : lock (from.lock)
\* { from.lock = nullptr; }, of either guard from the other
MoveConstruct(self) ==
    /\ pc[self] = "idle"
    /\ \/ /\ guard[self].kind # "none"
          /\ spare[self] = NoGuard
          /\ spare' = [spare EXCEPT ![self] = guard[self]]
          /\ guard' = [guard EXCEPT ![self].lock = FALSE]
       \/ /\ spare[self].kind # "none"
          /\ guard[self] = NoGuard
          /\ guard' = [guard EXCEPT ![self] = spare[self]]
          /\ spare' = [spare EXCEPT ![self].lock = FALSE]
    /\ UNCHANGED << ownX, ownS, lockVars, callVars, dataVars, now >>

\* operator = (RwSpinLockScope... && from): std::swap (this->lock, from.lock)
MoveAssign(self) ==
    /\ pc[self] = "idle"
    /\ guard[self].kind # "none"
    /\ guard[self].kind = spare[self].kind
    /\ guard' = [guard EXCEPT ![self].lock = spare[self].lock]
    /\ spare' = [spare EXCEPT ![self].lock = guard[self].lock]
    /\ UNCHANGED << ownX, ownS, lockVars, callVars, dataVars, now >>

\* release () and the destructor of the first guard
GuardsRelease(self) ==
    /\ ~Nested(self, guard[self])
    /\ (GuardRelease(self) \/ GuardDestroy(self))

\* release () of the second guard when active
SpareRelease(self) ==
    /\ pc[self] = "idle"
    /\ spare[self].kind # "none"
    /\ spare[self].lock
    /\ ~Nested(self, spare[self])
    /\ ScopeReleaseOf(self, spare[self].kind)
    /\ spare' = [spare EXCEPT ![self].lock = FALSE]
    /\ Leave(self)
    /\ UNCHANGED << guard, ownX, ownS, callVars, now >>

\* the destructor of the second guard: if (this->lock) this->release ()
SpareDestroy(self) ==
    /\ pc[self] = "idle"
    /\ spare[self].kind # "none"
    /\ ~Nested(self, spare[self])
    /\ IF spare[self].lock
       THEN ScopeReleaseOf(self, spare[self].kind)
       ELSE UNCHANGED lockVars
    /\ spare' = [spare EXCEPT ![self] = NoGuard]
    /\ Leave(self)
    /\ UNCHANGED << guard, ownX, ownS, callVars, now >>

\* this->lock->AcquireShared () of the copy
CopyAcquire(self) ==
    /\ pc' = [pc EXCEPT ![self] = "read"]
    /\ call' = [call EXCEPT ![self] =
            [fn |-> "AcquireShared", timeout |-> U64(0), rounds |-> FALSE]]
    /\ r' = [r EXCEPT ![self] = 0]
    /\ UNCHANGED << s, contested, t, wait, ret, won, rounds >>

\* (a copy constructor that copies the pointer and acquires nothing)
CopyConstructShallow(self) ==
    /\ pc[self] = "idle"
    /\ guard[self] = [kind |-> "Shared", lock |-> TRUE]
    /\ spare[self] = NoGuard
    /\ spare' = [spare EXCEPT ![self] = guard[self]]
    /\ UNCHANGED << guard, ownX, ownS, lockVars, callVars, dataVars, now >>

\* RwSpinLockScopeShared (const RwSpinLockScopeShared & from) : lock (from.lock)
\* { this->lock->AcquireShared (); }, of the second guard from an active first
CopyConstruct(self) ==
    /\ pc[self] = "idle"
    /\ guard[self] = [kind |-> "Shared", lock |-> TRUE]
    /\ spare[self] = NoGuard
    /\ spare' = [spare EXCEPT ![self] = guard[self]]
    /\ CopyAcquire(self)
    /\ UNCHANGED << guard, ownX, ownS, lockVars, dataVars, now >>

\* operator = (const RwSpinLockScopeShared & from), second guard = first:
\* if (this->lock) this->release (); this->lock = from.lock;
\* if (this->lock) this->lock->AcquireShared ()
CopyAssign(self) ==
    /\ pc[self] = "idle"
    /\ guard[self].kind = "Shared"
    /\ spare[self].kind = "Shared"
    /\ IF spare[self].lock
       THEN ScopeReleaseOf(self, "Shared")
       ELSE UNCHANGED lockVars
    /\ spare' = [spare EXCEPT ![self].lock = guard[self].lock]
    /\ IF guard[self].lock
       THEN CopyAcquire(self)
       ELSE UNCHANGED callVars
    /\ UNCHANGED << guard, ownX, ownS, dataVars, now >>

\* AcquireShared has returned to the copy constructor or copy assignment
CopyResume(self) ==
    /\ Copying(self)
    /\ Returns(self)
    /\ UNCHANGED ownerVars

\* threads that take the lock through guards, move, release and destroy
\* them, and upgrade a shared acquisition with lock.upgrade ()
NextGuards ==
    \E self \in Threads :
        \/ GuardsBegin(self)
        \/ GuardsResume(self)
        \/ PlainBegin(self)
        \/ PlainResume(self)
        \/ PlainRelease(self)
        \/ UpgradeBegin(self)
        \/ UpgradeResume(self)
        \/ TryOnce(self)
        \/ MoveConstruct(self)
        \/ MoveAssign(self)
        \/ GuardsRelease(self)
        \/ SpareRelease(self)
        \/ SpareDestroy(self)

SpecGuards == Init /\ [][NextGuards]_vars

\* threads that take the lock through guards and copy the shared ones
NextCopies ==
    \E self \in Threads :
        \/ GuardsBegin(self)
        \/ GuardsResume(self)
        \/ TryAcquireExclusiveRead(self)
        \/ TryAcquireExclusiveCAS(self)
        \/ TryAcquireSharedRead(self)
        \/ TryAcquireSharedCAS(self)
        \/ CopyConstruct(self)
        \/ CopyAssign(self)
        \/ CopyResume(self)
        \/ GuardsRelease(self)
        \/ SpareRelease(self)
        \/ SpareDestroy(self)

SpecCopies == Init /\ [][NextCopies]_vars

\* threads that take the lock through guards and upgrade the shared ones with
\* lock.upgrade (), one of them also with lock.upgrade (timeout, rounds)
NextUpgrade ==
    \/ Tick
    \/ \E self \in Threads :
        \/ GuardsBegin(self)
        \/ GuardsResume(self)
        \/ UpgradeBegin(self)
        \/ UpgradeTimedBegin(self)
        \/ UpgradeResume(self)
        \/ TryOnce(self)
        \/ GuardsRelease(self)
        \/ SpareRelease(self)
        \/ SpareDestroy(self)

SpecUpgrade == Init /\ [][NextUpgrade]_vars

\* ------------------------------------------------------ the upgrade cycle
\* every thread performs Cycles times: AcquireShared, TryUpgradeToExclusive,
\* read the protected word and write it back increased by one,
\* DowngradeToShared, ReleaseShared; a thread whose upgrade has failed
\* releases its shared lock and starts again; a thread that has finished
\* keeps calling TryAcquireExclusive
\* the cycles the thread still has to perform
CyclesLeft(self) == left[self] - (Pairs - Cycles)

CycleBegin(self) ==
    /\ CyclesLeft(self) > 0
    /\ cs[self] = "out"
    /\ spare[self] = NoGuard
    /\ HoldsNothing(self)
    /\ Begin(self, [fn |-> "AcquireShared", timeout |-> U64(0), rounds |-> TRUE])

CycleUpgrade(self) ==
    /\ CyclesLeft(self) > 0
    /\ cs[self] = "out"
    /\ Begin(self, [fn |-> "TryUpgradeToExclusive", timeout |-> U64(0), rounds |-> FALSE])

CycleRead(self) ==
    /\ CyclesLeft(self) > 0
    /\ ReadData(self)

CycleDowngrade(self) ==
    /\ cs[self] = "written"
    /\ DowngradeToShared(self)

\* the thread is past its DowngradeToShared
Downgraded(self) ==
    /\ cs[self] = "written"
    /\ ownX[self] = 0
    /\ ownS[self] = 1

\* ReleaseShared at the end of the cycle, or after a failed upgrade
CycleRelease(self) ==
    /\ cs[self] = "out" \/ Downgraded(self)
    /\ ReleaseShared(self)

CycleProbe(self) ==
    /\ CyclesLeft(self) = 0
    /\ cs[self] = "out"
    /\ Begin(self, [fn |-> "TryAcquireExclusive", timeout |-> U64(0), rounds |-> FALSE])

\* the ReleaseExclusive after a TryAcquireExclusive that returned true
ProbeRelease(self) ==
    /\ CyclesLeft(self) = 0
    /\ cs[self] = "out"
    /\ ReleaseExclusive(self)

NextCycle ==
    \E self \in Threads :
        \/ CycleBegin(self)
        \/ CycleUpgrade(self)
        \/ TryOnce(self)
        \/ Resume(self)
        \/ CycleRead(self)
        \/ WriteData(self)
        \/ CycleDowngrade(self)
        \/ CycleRelease(self)
        \/ CycleProbe(self)
        \/ ProbeRelease(self)

SpecCycle == Init /\ [][NextCycle]_vars

\* ------------------------------------------------- readers and a waiter
\* TryAcquireShared (), the loop condition of AcquireShared, by a thread that
\* may already hold shared locks
ReaderBegin(self) ==
    /\ pc[self] = "idle"
    /\ ownX[self] = 0
    /\ NoGuards(self)
    /\ ownS[self] < ReaderNest
    /\ call' = [call EXCEPT ![self] =
            [fn |-> "TryAcquireShared", timeout |-> U64(0), rounds |-> FALSE]]
    /\ pc' = [pc EXCEPT ![self] = "read"]
    /\ r' = [r EXCEPT ![self] = 0]
    /\ UNCHANGED << s, contested, t, wait, ret, won, rounds >>
    /\ UNCHANGED << lockVars, ownerVars, dataVars, now >>

\* AcquireExclusive (rounds) by a thread that holds nothing
WriterBegin(self) ==
    Begin(self, [fn |-> "AcquireExclusive", timeout |-> U64(0), rounds |-> TRUE])

\* threads that acquire shared, nested up to ReaderNest, or wait in
\* AcquireExclusive
NextReaders ==
    \E self \in Threads :
        \/ ReaderBegin(self)
        \/ WriterBegin(self)
        \/ TryAcquireSharedRead(self)
        \/ TryAcquireSharedCAS(self)
        \/ TryAcquireExclusiveRead(self)
        \/ TryAcquireExclusiveCAS(self)
        \/ Resume(self)
        \/ ReleaseShared(self)
        \/ ReleaseExclusive(self)

SpecReaders == Init /\ [][NextReaders]_vars

\* ------------------------------------------------------- a starved waiter
\* a schedule the code allows: TryAcquireShared is called while no other
\* thread is inside it, a shared lock is released only while another shared
\* acquisition is outstanding, and AcquireExclusive is called while the lock
\* is held shared
QuietBegin(self) ==
    /\ \A o \in Threads \ {self} : Mode(call[o].fn) # "Shared"
    /\ ReaderBegin(self)

OverlapRelease(self) ==
    /\ state >= 2
    /\ ReleaseShared(self)

LateWriterBegin(self) ==
    /\ state >= 1
    /\ WriterBegin(self)

StarveStep(self) ==
    \/ QuietBegin(self)
    \/ LateWriterBegin(self)
    \/ TryAcquireSharedRead(self)
    \/ TryAcquireSharedCAS(self)
    \/ TryAcquireExclusiveRead(self)
    \/ Resume(self)
    \/ OverlapRelease(self)

NextStarve == \E self \in Threads : StarveStep(self)

\* every thread that can take a step eventually takes one, and a thread that
\* can release again and again does release
SpecStarve ==
    /\ Init
    /\ [][NextStarve]_vars
    /\ \A self \in Threads :
        /\ WF_vars(StarveStep(self))
        /\ SF_vars(OverlapRelease(self))

\* ----------------------------------------------- temporarily unlocked scopes
\* the kind of the sub-guard that temporarily_unlock () of a guard returns
Unlocked(kind) == IF kind = "Exclusive" THEN "ExclusiveUnlocked" ELSE "SharedUnlocked"

UnlockedKinds == {"ExclusiveUnlocked", "SharedUnlocked"}

\* the thread is inside the scope of a sub-guard that has not restored yet
InUnlocked(self) == spare[self].kind \in UnlockedKinds /\ spare[self].lock

\* (a temporarily_unlock () that frees the lock whatever the parent's mode)
TemporarilyUnlockAll(self) ==
    /\ pc[self] = "idle"
    /\ guard[self].kind \in {"Exclusive", "Shared"}
    /\ guard[self].lock
    /\ spare[self] = NoGuard
    /\ ScopeReleaseOf(self, "Exclusive")
    /\ spare' = [spare EXCEPT ![self] = [kind |-> Unlocked(guard[self].kind), lock |-> TRUE]]
    /\ UNCHANGED << guard, ownX, ownS, callVars, dataVars, now >>

\* guard.temporarily_unlock (rounds): releases the parent's lock (exclusive:
\* ReleaseExclusive, shared: ReleaseShared) and returns the sub-guard
TemporarilyUnlock(self) ==
    /\ pc[self] = "idle"
    /\ guard[self].kind \in {"Exclusive", "Shared"}
    /\ guard[self].lock
    /\ spare[self] = NoGuard
    /\ ScopeReleaseOf(self, guard[self].kind)
    /\ spare' = [spare EXCEPT ![self] = [kind |-> Unlocked(guard[self].kind), lock |-> TRUE]]
    /\ UNCHANGED << guard, ownX, ownS, callVars, dataVars, now >>

\* restore (), or the destructor of a sub-guard that has not restored:
\* AcquireExclusive (rounds) / AcquireShared (rounds) of the parent's mode
RestoreBegin(self) ==
    /\ pc[self] = "idle"
    /\ InUnlocked(self)
    /\ pc' = [pc EXCEPT ![self] = "read"]
    /\ call' = [call EXCEPT ![self] =
            [fn |-> IF spare[self].kind = "ExclusiveUnlocked"
                    THEN "AcquireExclusive" ELSE "AcquireShared",
             timeout |-> U64(0), rounds |-> TRUE]]
    /\ r' = [r EXCEPT ![self] = 0]
    /\ UNCHANGED << s, contested, t, wait, ret, won, rounds >>
    /\ UNCHANGED << lockVars, ownerVars, dataVars, now >>

\* the acquire has returned: restore () leaves the sub-guard inert, the
\* destructor ends it
RestoreResume(self) ==
    /\ InUnlocked(self)
    /\ Returns(self)
    /\ \E after \in {[spare[self] EXCEPT !.lock = FALSE], NoGuard} :
        spare' = [spare EXCEPT ![self] = after]
    /\ UNCHANGED << guard, ownX, ownS >>

\* (a destructor that acquires again after restore ())
UnlockedDestroyAgain(self) ==
    /\ pc[self] = "idle"
    /\ spare[self].kind \in UnlockedKinds
    /\ ~spare[self].lock
    /\ spare' = [spare EXCEPT ![self].lock = TRUE]
    /\ UNCHANGED << guard, ownX, ownS, lockVars, callVars, dataVars, now >>

\* the destructor of a sub-guard after restore (): nothing to do
UnlockedDestroy(self) ==
    /\ pc[self] = "idle"
    /\ spare[self].kind \in UnlockedKinds
    /\ ~spare[self].lock
    /\ spare' = [spare EXCEPT ![self] = NoGuard]
    /\ UNCHANGED << guard, ownX, ownS, lockVars, callVars, dataVars, now >>

\* the guard returned by exclusively () / share () to a thread that is not
\* restoring
ParentResume(self) ==
    /\ ~InUnlocked(self)
    /\ GuardsResume(self)

\* release () or the destructor of the parent guard, outside a sub-scope
ParentRelease(self) ==
    /\ spare[self] = NoGuard
    /\ (GuardRelease(self) \/ GuardDestroy(self))

\* threads that take the lock through exclusively () / share () and unlock it
\* temporarily inside the guarded scope
NextUnlock ==
    \E self \in Threads :
        \/ GuardsBegin(self)
        \/ ParentResume(self)
        \/ TryAcquireExclusiveRead(self)
        \/ TryAcquireExclusiveCAS(self)
        \/ TryAcquireSharedRead(self)
        \/ TryAcquireSharedCAS(self)
        \/ TemporarilyUnlock(self)
        \/ RestoreBegin(self)
        \/ RestoreResume(self)
        \/ UnlockedDestroy(self)
        \/ ParentRelease(self)

SpecUnlock == Init /\ [][NextUnlock]_vars

\* --------------------------------------------- the insertion procedure
\* DataInsertionProcedure of the README, performed Cycles times by every
\* thread: while (true) { AcquireShared (); FindInsertionPlace;
\* if (TryUpgradeToExclusive ()) { InsertDataToPlace; ReleaseExclusive ();
\* return; } ReleaseShared (); }
\* lock.AcquireShared ()
InsertBegin(self) ==
    /\ CyclesLeft(self) > 0
    /\ cs[self] = "out"
    /\ HoldsNothing(self)
    /\ Begin(self, [fn |-> "AcquireShared", timeout |-> U64(0), rounds |-> FALSE])

\* auto place = FindInsertionPlace (x), under the shared lock
FindInsertionPlace(self) ==
    /\ CyclesLeft(self) > 0
    /\ pc[self] = "idle"
    /\ cs[self] = "out"
    /\ ownS[self] = 1
    /\ seen' = [seen EXCEPT ![self] = sum]
    /\ cs' = [cs EXCEPT ![self] = "found"]
    /\ UNCHANGED << sum, left, entries, allocator, lockVars, callVars, ownerVars, now >>

\* if (lock.TryUpgradeToExclusive ())
InsertUpgrade(self) ==
    /\ cs[self] = "found"
    /\ Begin(self, [fn |-> "TryUpgradeToExclusive", timeout |-> U64(0), rounds |-> FALSE])

\* the branch taken on the value TryUpgradeToExclusive returns
InsertResume(self) ==
    LET ok == ret[self] # "false"
    IN  /\ cs[self] = "found"
        /\ CallEnds(self)
        /\ ownX' = [ownX EXCEPT ![self] = IF ok THEN 1 ELSE @]
        /\ ownS' = [ownS EXCEPT ![self] = IF ok THEN @ - 1 ELSE @]
        /\ cs' = [cs EXCEPT ![self] = IF ok THEN "upgraded" ELSE "failed"]
        /\ UNCHANGED << sum, seen, left, entries, allocator, guard, spare >>

\* (an insertion performed whatever TryUpgradeToExclusive returned)
InsertDataAnyway(self) ==
    /\ pc[self] = "idle"
    /\ cs[self] \in {"upgraded", "failed"}
    /\ sum' = seen[self] + 1
    /\ cs' = [cs EXCEPT ![self] = "written"]
    /\ left' = [left EXCEPT ![self] = @ - 1]
    /\ entries' = entries + 1
    /\ UNCHANGED allocator
    /\ UNCHANGED << seen, lockVars, callVars, ownerVars, now >>

\* InsertDataToPlace (place, x): the modification, at the place found
InsertDataToPlace(self) ==
    /\ pc[self] = "idle"
    /\ cs[self] = "upgraded"
    /\ sum' = seen[self] + 1
    /\ cs' = [cs EXCEPT ![self] = "written"]
    /\ left' = [left EXCEPT ![self] = @ - 1]
    /\ entries' = entries + 1
    /\ UNCHANGED allocator
    /\ UNCHANGED << seen, lockVars, callVars, ownerVars, now >>

\* lock.ReleaseExclusive (); return
InsertRelease(self) ==
    /\ cs[self] = "written"
    /\ ReleaseExclusive(self)

\* lock.ReleaseShared (), and the loop starts again
InsertRetry(self) ==
    /\ cs[self] = "failed"
    /\ ReleaseShared(self)

\* the thread has returned from its last DataInsertionProcedure
InsertReturned(self) ==
    /\ CyclesLeft(self) = 0
    /\ pc[self] = "idle"
    /\ cs[self] = "out"

NextInsert ==
    \E self \in Threads :
        \/ InsertBegin(self)
        \/ Resume(self) /\ cs[self] = "out"
        \/ FindInsertionPlace(self)
        \/ InsertUpgrade(self)
        \/ InsertResume(self)
        \/ TryAcquireSharedRead(self)
        \/ TryAcquireSharedCAS(self)
        \/ TryUpgradeToExclusiveRead(self)
        \/ TryUpgradeToExclusiveCAS(self)
        \/ InsertDataToPlace(self)
        \/ InsertRelease(self)
        \/ InsertRetry(self)

SpecInsert == Init /\ [][NextInsert]_vars

\* ------------------------------------------------ the range of the counter
\* the largest value of StateType
StateMax == 2 ^ (StateBits - 1) - 1

\* the shared locks each thread holds when the run starts: the first thread
\* has nested StateMax - 1 of them
Crowd(self) == IF self = 1 THEN StateMax - 1 ELSE 0

\* the lock after StateMax - 1 successful TryAcquireShared () of one thread
InitCrowded ==
    /\ state = StateMax - 1
    /\ pc = [self \in Threads |-> "idle"]
    /\ call = [self \in Threads |-> NoCall]
    /\ r = [self \in Threads |-> 0]
    /\ s = [self \in Threads |-> 0]
    /\ contested = [self \in Threads |-> FALSE]
    /\ t = [self \in Threads |-> U64(0)]
    /\ now = U64(0)
    /\ wait = [self \in Threads |-> NoValue]
    /\ ret = [self \in Threads |-> NoValue]
    /\ won = [self \in Threads |-> FALSE]
    /\ rounds = [self \in Threads |-> NotWritten]
    /\ guard = [self \in Threads |-> NoGuard]
    /\ spare = [self \in Threads |-> NoGuard]
    /\ ownX = [self \in Threads |-> 0]
    /\ ownS = [self \in Threads |-> Crowd(self)]
    /\ holdX = [self \in Threads |-> 0]
    /\ holdS = [self \in Threads |-> Crowd(self)]
    /\ sum = 0
    /\ seen = [self \in Threads |-> 0]
    /\ cs = [self \in Threads |-> "out"]
    /\ left = [self \in Threads |-> Pairs]
    /\ entries = 0
    /\ allocator = NoAllocator

\* TryAcquireShared () by a thread that holds no exclusive lock; every thread
\* nests up to ReaderNest further shared locks
CrowdBegin(self) ==
    /\ pc[self] = "idle"
    /\ ownX[self] = 0
    /\ ownS[self] < Crowd(self) + ReaderNest
    /\ call' = [call EXCEPT ![self] =
            [fn |-> "TryAcquireShared", timeout |-> U64(0), rounds |-> FALSE]]
    /\ pc' = [pc EXCEPT ![self] = "read"]
    /\ r' = [r EXCEPT ![self] = 0]
    /\ UNCHANGED << s, contested, t, wait, ret, won, rounds >>
    /\ UNCHANGED << lockVars, ownerVars, dataVars, now >>

\* ReleaseShared () of a lock taken during the run
CrowdRelease(self) ==
    /\ ownS[self] > Crowd(self)
    /\ ReleaseShared(self)

NextCrowded ==
    \E self \in Threads :
        \/ CrowdBegin(self)
        \/ TryAcquireSharedRead(self)
        \/ TryAcquireSharedCAS(self)
        \/ Resume(self)
        \/ CrowdRelease(self)

SpecCrowded == InitCrowded /\ [][NextCrowded]_vars

\* ------------------------------------------------- write, then downgrade
\* every thread performs Cycles times: TryAcquireExclusive, write the
\* protected word, DowngradeToShared, read the word, ReleaseShared; at any
\* time a thread that holds nothing may read the word under a shared lock
DownBegin(self) ==
    /\ CyclesLeft(self) > 0
    /\ cs[self] = "out"
    /\ Begin(self, [fn |-> "TryAcquireExclusive", timeout |-> U64(0), rounds |-> FALSE])

\* the word the thread has written in its critical section
Written(self) == IF cs[self] = "written" THEN seen[self] + 1 ELSE seen[self]

\* the writer reads the word after its DowngradeToShared
Reread(self) ==
    /\ pc[self] = "idle"
    /\ Downgraded(self)
    /\ seen' = [seen EXCEPT ![self] = sum]
    /\ cs' = [cs EXCEPT ![self] = "reread"]
    /\ UNCHANGED << sum, left, entries, allocator, lockVars, callVars, ownerVars, now >>

PeekBegin(self) ==
    /\ cs[self] = "out"
    /\ HoldsNothing(self)
    /\ Begin(self, [fn |-> "TryAcquireShared", timeout |-> U64(0), rounds |-> FALSE])

\* a reader reads the word under its shared lock
Peek(self) ==
    /\ pc[self] = "idle"
    /\ cs[self] = "out"
    /\ ownX[self] = 0
    /\ ownS[self] = 1
    /\ seen' = [seen EXCEPT ![self] = sum]
    /\ cs' = [cs EXCEPT ![self] = "peeked"]
    /\ UNCHANGED << sum, left, entries, allocator, lockVars, callVars, ownerVars, now >>

\* ReleaseShared by the writer and by the reader once they have read
DownRelease(self) ==
    /\ cs[self] \in {"reread", "peeked"}
    /\ ReleaseShared(self)

NextDowngrade ==
    \E self \in Threads :
        \/ DownBegin(self)
        \/ PeekBegin(self)
        \/ TryAcquireExclusiveRead(self)
        \/ TryAcquireExclusiveCAS(self)
        \/ TryAcquireSharedRead(self)
        \/ TryAcquireSharedCAS(self)
        \/ Resume(self)
        \/ ReadData(self)
        \/ WriteData(self)
        \/ CycleDowngrade(self)
        \/ Reread(self)
        \/ Peek(self)
        \/ DownRelease(self)

SpecDowngrade == Init /\ [][NextDowngrade]_vars

\* ----------------------------------------------------- a very long wait
\* the largest std::uint32_t, 2^32 - 1
UInt32Max == 0 - 1

\* r of a call that has failed 2^32 - 3 times
LongWaited == UInt32Max - 2

\* the first thread has been waiting in an acquire without timeout, which
\* has failed LongWaited times and slept last, for the lock that the last
\* thread holds exclusively
InitLongWait ==
    /\ state = ExclusivelyOwned
    /\ pc = [self \in Threads |-> IF self = 1 THEN "read" ELSE "idle"]
    /\ \E c \in AcquireCalls :
            call = [self \in Threads |-> IF self = 1 THEN c ELSE NoCall]
    /\ r = [self \in Threads |-> IF self = 1 THEN LongWaited ELSE 0]
    /\ s = [self \in Threads |-> 0]
    /\ contested = [self \in Threads |-> FALSE]
    /\ t = [self \in Threads |-> U64(0)]
    /\ now = U64(0)
    /\ wait = [self \in Threads |-> IF self = 1 THEN "Sleep1" ELSE NoValue]
    /\ ret = [self \in Threads |-> NoValue]
    /\ won = [self \in Threads |-> FALSE]
    /\ rounds = [self \in Threads |-> NotWritten]
    /\ guard = [self \in Threads |-> NoGuard]
    /\ spare = [self \in Threads |-> NoGuard]
    /\ ownX = [self \in Threads |-> IF self = NumThreads THEN 1 ELSE 0]
    /\ ownS = [self \in Threads |-> 0]
    /\ holdX = [self \in Threads |-> IF self = NumThreads THEN 1 ELSE 0]
    /\ holdS = [self \in Threads |-> 0]
    /\ sum = 0
    /\ seen = [self \in Threads |-> 0]
    /\ cs = [self \in Threads |-> "out"]
    /\ left = [self \in Threads |-> Pairs]
    /\ entries = 0
    /\ allocator = NoAllocator

NextLongWait ==
    \E self \in Threads :
        \/ BeginAcquire(self)
        \/ TryAcquireExclusiveRead(self)
        \/ TryAcquireExclusiveCAS(self)
        \/ TryAcquireSharedRead(self)
        \/ TryAcquireSharedCAS(self)
        \/ Resume(self)
        \/ ReleaseExclusive(self)
        \/ ReleaseShared(self)

SpecLongWait == InitLongWait /\ [][NextLongWait]_vars

\* ------------------------------------------------- the end of a timed call
\* GetTickCount64 () advances while a contested loop waits for its deadline
DeadlineTick ==
    /\ \E self \in Threads : contested[self] /\ Less64(now, t[self])
    /\ now' = Add64(now, U64(1))
    /\ UNCHANGED << lockVars, callVars, ownerVars, dataVars >>

\* the timed calls are begun during the first MaxNow ticks of the clock
DeadlineBegin(self) ==
    /\ Less64(now, U64(MaxNow))
    /\ BeginTimed(self)

NextDeadline ==
    \/ DeadlineTick
    \/ \E self \in Threads :
        \/ BeginTry(self)
        \/ DeadlineBegin(self)
        \/ TryOnce(self)
        \/ Resume(self)
        \/ ReleaseExclusive(self)
        \/ ReleaseShared(self)

\* the clock keeps advancing and a thread inside a call keeps being scheduled
SpecDeadline ==
    /\ Init
    /\ [][NextDeadline]_vars
    /\ WF_vars(DeadlineTick)
    /\ \A self \in Threads : WF_vars(TryOnce(self))

\* ------------------------------------------------------------ readers only
\* AcquireShared (rounds) by a thread that holds no shared lock yet
ShareBegin(self) ==
    Begin(self, [fn |-> "AcquireShared", timeout |-> U64(0), rounds |-> TRUE])

\* threads that only ever acquire shared, with TryAcquireShared () or with
\* AcquireShared (rounds), and release what they hold
NextShared ==
    \E self \in Threads :
        \/ ReaderBegin(self)
        \/ ShareBegin(self)
        \/ TryAcquireSharedRead(self)
        \/ TryAcquireSharedCAS(self)
        \/ Resume(self)
        \/ ReleaseShared(self)

SpecShared == Init /\ [][NextShared]_vars

\* ------------------------------------------------ ForceUnlock on a lock in use
\* (a ForceUnlock that releases as a reader would, on a lock in use)
ForceUnlockInUseShared(self) ==
    /\ pc[self] = "idle"
    /\ state # 0
    /\ state' = LockedDecrement(state).cell
    /\ UNCHANGED << holdX, holdS, callVars, ownerVars, dataVars, now >>

\* ForceUnlock: return this->ReleaseExclusive (), called while the holders
\* of the lock are alive and go on: they have not released what they hold
ForceUnlockInUse(self) ==
    /\ pc[self] = "idle"
    /\ state # 0
    /\ state' = LockedExchange(state, 0).cell
    /\ UNCHANGED << holdX, holdS, callVars, ownerVars, dataVars, now >>

MisuseCalls ==
    { [fn |-> f, timeout |-> U64(0), rounds |-> FALSE] :
        f \in {"TryAcquireExclusive", "TryAcquireShared"} }

MisuseBegin(self) == \E c \in MisuseCalls : Begin(self, c)

\* threads that try to acquire and release what they hold, and that call
\* ForceUnlock at any time
NextMisuse ==
    \E self \in Threads :
        \/ MisuseBegin(self)
        \/ TryAcquireExclusiveRead(self)
        \/ TryAcquireExclusiveCAS(self)
        \/ TryAcquireSharedRead(self)
        \/ TryAcquireSharedCAS(self)
        \/ Resume(self)
        \/ ReleaseExclusive(self)
        \/ ReleaseShared(self)
        \/ ForceUnlockInUse(self)

SpecMisuse == Init /\ [][NextMisuse]_vars

\* ==================================================================== claims
\* a step of the try-once that thread self is in
Took(self) ==
    /\ pc[self] \in {"read", "cas"}
    /\ (pc'[self] # pc[self] \/ r'[self] # r[self])

InShared(self) ==
    \/ ownS[self] >= 1
    \/ guard[self].lock /\ guard[self].kind = "Shared"

\* C1: with the acquires without timeout, the try-once functions and the
\* guards, at most one thread holds the lock exclusively, and while one does
\* no thread holds it shared: two exclusive sections never overlap, and an
\* exclusive section never overlaps a shared one.
MutualExclusion ==
    /\ Cardinality(ExclusiveHolders) <= 1
    /\ ExclusiveHolders # {} => SharedHeld(NumThreads) = 0
    /\ \A a, b \in Threads :
          (a # b /\ InExclusive(a)) => (~InExclusive(b) /\ ~InShared(b))
    /\ \A a \in Threads : InExclusive(a) => ~InShared(a)

\* a thread is inside its exclusive section while another waits in
\* AcquireExclusive, having failed already
MutualExclusionWitness ==
    \E a, b \in Threads :
        /\ a # b
        /\ InExclusive(a)
        /\ holdX[a] = 1
        /\ call[b].fn = "AcquireExclusive"
        /\ pc[b] = "read"
        /\ r[b] >= 1

\* C2: the cell is ExclusivelyOwned exactly when one thread holds the lock
\* exclusively and none shares it, k >= 1 exactly when k shared acquisitions
\* are outstanding and nobody holds it exclusively, and 0 exactly when nobody
\* holds it.
StateMatchesHolders ==
    /\ (state = ExclusivelyOwned) <=>
          (Cardinality(ExclusiveHolders) = 1 /\ SharedHeld(NumThreads) = 0)
    /\ \A k \in 1 .. (NumThreads * (MaxNest + 1)) :
          (state = k) <=> (ExclusiveHolders = {} /\ SharedHeld(NumThreads) = k)
    /\ (state = 0) <=> (ExclusiveHolders = {} /\ SharedHeld(NumThreads) = 0)

\* C3: an acquire with a timeout returns true only when its own
\* compare-exchange acquired the lock, whatever the timeout, 0 included.
TimedTrueOnlyAcquired ==
    \A self \in Threads :
        (/\ pc[self] = "return"
         /\ Kind(call[self].fn) = "timed"
         /\ ret[self] = "true") => won[self]

\* C4: an acquire with timeout 0 whose every try found the lock unavailable
\* returns false.
ZeroTimeoutReturnsFalse ==
    \A self \in Threads :
        (/\ pc[self] = "return"
         /\ Kind(call[self].fn) = "timed"
         /\ call[self].timeout = U64(0)
         /\ ~won[self]) => ret[self] = "false"

\* C5: a guard made by exclusively (timeout) or share (timeout) is active
\* exactly when its thread holds the lock in the guard's mode.
TimedGuardActiveIffHeld ==
    \A self \in Threads :
        guard[self].kind # "none" =>
            /\ guard[self].kind = "Exclusive" => (guard[self].lock <=> holdX[self] = 1)
            /\ guard[self].kind = "Shared" => (guard[self].lock <=> holdS[self] >= 1)

\* C6: TryAcquireExclusive succeeds only in the step of its compare-exchange
\* that finds 0 in the cell and leaves ExclusivelyOwned there; it fails
\* whenever the cell is not 0 at its read or at its compare-exchange, and a
\* failing step leaves the cell as it was; the read alone never succeeds.
TryAcquireExclusiveAtomic ==
    [][\A self \in Threads :
        (Took(self) /\ Mode(call[self].fn) = "Exclusive") =>
            /\ won'[self] =>
                  (pc[self] = "cas" /\ state = 0 /\ state' = ExclusivelyOwned)
            /\ state # 0 => (~won'[self] /\ state' = state)
            /\ pc[self] = "read" => (~won'[self] /\ state' = state)
            /\ (Kind(call[self].fn) = "try" /\ pc'[self] = "return") =>
                  ((ret'[self] = "true") <=> won'[self])
            /\ (Kind(call[self].fn) = "try" /\ state # 0) =>
                  (pc'[self] = "return" /\ ret'[self] = "false")
      ]_vars

\* a TryAcquireExclusive has read 0 and stands before its compare-exchange
\* while another thread has taken the lock
TryAcquireExclusiveWitness ==
    \E self \in Threads :
        /\ call[self].fn = "TryAcquireExclusive"
        /\ pc[self] = "cas"
        /\ state = ExclusivelyOwned

\* C7: TryAcquireShared fails when it reads ExclusivelyOwned; it succeeds
\* only in the step of its compare-exchange that finds the value s >= 0 it
\* read and leaves s + 1, which never happens while a thread holds the lock
\* exclusively; a failing step leaves the cell as it was.
TryAcquireSharedAtomic ==
    [][\A self \in Threads :
        (Took(self) /\ Mode(call[self].fn) = "Shared") =>
            /\ (pc[self] = "read" /\ state = ExclusivelyOwned) =>
                  (~won'[self] /\ pc'[self] # "cas" /\ state' = state)
            /\ (Kind(call[self].fn) = "try" /\ pc[self] = "read"
                    /\ state = ExclusivelyOwned) =>
                  (pc'[self] = "return" /\ ret'[self] = "false")
            /\ won'[self] =>
                  /\ pc[self] = "cas"
                  /\ s[self] >= 0
                  /\ state = s[self]
                  /\ state' = s[self] + 1
                  /\ ExclusiveHolders = {}
            /\ (pc[self] = "cas" /\ state # s[self]) => ~won'[self]
            /\ ~won'[self] => state' = state
            /\ (Kind(call[self].fn) = "try" /\ pc'[self] = "return") =>
                  ((ret'[self] = "true") <=> won'[self])
      ]_vars

\* a TryAcquireShared has returned true as the second reader
TryAcquireSharedWitness ==
    \E self \in Threads :
        /\ call[self].fn = "TryAcquireShared"
        /\ pc[self] = "return"
        /\ ret[self] = "true"
        /\ s[self] = 1
        /\ state = 2

\* C8: TryUpgradeToExclusive succeeds only in the step of its compare-exchange
\* that finds 1 in the cell and leaves ExclusivelyOwned; with two or more
\* shared holders it returns false at once and leaves the cell as it was; of
\* the threads upgrading at one time at most one succeeds.
TryUpgradeToExclusiveAtomic ==
    [][\A self \in Threads :
        (Took(self) /\ Mode(call[self].fn) = "Upgrade") =>
            /\ won'[self] =>
                  /\ pc[self] = "cas"
                  /\ state = 1
                  /\ state' = ExclusivelyOwned
                  /\ \A o \in Threads \ {self} : holdX'[o] = 0 /\ ~won'[o]
            /\ state >= 2 => ~won'[self]
            /\ ~won'[self] => state' = state
            /\ (Kind(call[self].fn) = "try" /\ ~won'[self]) =>
                  \/ pc[self] = "read" /\ pc'[self] = "cas"
                  \/ pc'[self] = "return" /\ ret'[self] = "false"
            /\ (Kind(call[self].fn) = "try" /\ pc'[self] = "return") =>
                  ((ret'[self] = "true") <=> won'[self])
      ]_vars

\* a TryUpgradeToExclusive has returned true to the only reader, another
\* thread trying to acquire meanwhile
TryUpgradeToExclusiveWitness ==
    \E self, o \in Threads :
        /\ call[self].fn = "TryUpgradeToExclusive"
        /\ pc[self] = "return"
        /\ ret[self] = "true"
        /\ state = ExclusivelyOwned
        /\ holdX[self] = 1
        /\ holdS[self] = 0
        /\ o # self
        /\ pc[o] \in {"read", "cas"}

\* C9: AcquireExclusive () and AcquireShared () return nothing but void, and
\* only in the step in which their own compare-exchange acquires the lock:
\* no such step happens while a thread holds the lock exclusively, so they do
\* not return as long as that thread does not release.
AcquireReturnsOnlyAcquired ==
    [][\A self \in Threads :
        (/\ Kind(call[self].fn) = "acquire"
         /\ pc[self] # "return"
         /\ pc'[self] = "return") =>
            /\ won'[self]
            /\ ret'[self] = "void"
            /\ pc[self] = "cas"
            /\ ExclusiveHolders = {}
            /\ state # ExclusivelyOwned
            /\ Mode(call[self].fn) = "Exclusive" =>
                  (state = 0 /\ state' = ExclusivelyOwned /\ holdX'[self] = 1)
            /\ Mode(call[self].fn) = "Shared" =>
                  (state' = state + 1 /\ holdS'[self] = holdS[self] + 1)
      ]_vars

\* an acquire without timeout has returned after at least one failed round
AcquireReturnsWitness ==
    \E self \in Threads :
        /\ Kind(call[self].fn) = "acquire"
        /\ pc[self] = "return"
        /\ rounds[self] >= 1
        /\ won[self]

\* C10: when every thread repeats acquire exclusively, read, write back
\* increased by one, release, every read sees the write of the entry before
\* it and no write is lost; the lock is free between the entries; after
\* NumThreads * Pairs entries the word is NumThreads * Pairs, the cell is 0
\* and the TryAcquireExclusive that follows succeeds.
ExclusiveAlternation ==
    /\ sum = entries
    /\ \A self \in Threads : cs[self] = "read" => seen[self] = entries
    /\ \A a, b \in Threads : (a # b /\ cs[a] # "out") => cs[b] = "out"
    /\ (\A o \in Threads : pc[o] = "idle" /\ HoldsNothing(o)) => state = 0
    /\ AllDone => (sum = NumThreads * Pairs /\ state = 0)
    /\ \A self \in Threads :
          (call[self].fn = "TryAcquireExclusive" /\ pc[self] = "return") =>
              (ret[self] = "true" /\ state = ExclusivelyOwned
                  /\ sum = NumThreads * Pairs)

\* the run is over and the TryAcquireExclusive after it has returned true
ExclusiveAlternationWitness ==
    \E self \in Threads :
        /\ \A o \in Threads : left[o] = 0
        /\ call[self].fn = "TryAcquireExclusive"
        /\ pc[self] = "return"
        /\ ret[self] = "true"
        /\ sum = NumThreads * Pairs

\* C11: every successful shared acquisition adds exactly one to the cell and
\* the ReleaseShared that pairs with it takes exactly one away, whatever the
\* other readers do in between; when every thread has released all it
\* acquired the cell is 0; and no exclusive acquisition succeeds while a
\* shared acquisition is outstanding.
SharedRoundTrip ==
    [][/\ \A self \in Threads :
            (holdS'[self] = holdS[self] + 1 /\ holdX'[self] = holdX[self]) =>
                (state >= 0 /\ state' = state + 1)
       /\ \A self \in Threads :
            (holdS'[self] = holdS[self] - 1 /\ holdX'[self] = holdX[self]) =>
                (state >= 1 /\ state' = state - 1)
       /\ \A self \in Threads :
            (holdX[self] = 0 /\ holdX'[self] = 1
                /\ Mode(call[self].fn) = "Exclusive") =>
                SharedHeld(NumThreads) = 0
       /\ (\A o \in Threads : pc'[o] = "idle" /\ ownX'[o] = 0 /\ ownS'[o] = 0
                /\ ~guard'[o].lock) => state' = 0
       /\ (state' >= 0 /\ ExclusiveHolders' = {}) => state' = SharedHeld(NumThreads)'
      ]_vars

\* a reader holds the lock while a thread in AcquireExclusive has failed a
\* round against it
SharedRoundTripWitness ==
    \E a, b \in Threads :
        /\ a # b
        /\ holdS[a] = 1
        /\ state = 1
        /\ call[b].fn = "AcquireExclusive"
        /\ pc[b] = "read"
        /\ r[b] >= 1

NoReentrancy ==
    [][\A self \in Threads :
        (ownX[self] = 1 /\ call[self].fn = "AcquireExclusive") =>
            /\ (pc[self] # "return" /\ pc'[self] = "return") =>
                  (holdX[self] = 0 /\ state = 0 /\ pc[self] = "cas")
            /\ (holdX[self] = 1 /\ state' # state) =>
                  (pc'[self] = pc[self] /\ r'[self] = r[self])
            /\ holdX[self] = 1 => state = ExclusivelyOwned
      ]_vars

\* the owner waits for its own lock, having failed a round
NoReentrancyWitness ==
    \E self \in Threads :
        /\ ownX[self] = 1
        /\ holdX[self] = 1
        /\ call[self].fn = "AcquireExclusive"
        /\ pc[self] = "read"
        /\ r[self] >= 1
        /\ state = ExclusivelyOwned

\* C17: a timed acquire called with a rounds pointer that returns false has
\* written *rounds before returning, its deadline has passed, and the value
\* written is greater than the Yields of its mode.
TimedFalseWritesRounds ==
    \A self \in Threads :
        (/\ pc[self] = "return"
         /\ Kind(call[self].fn) = "timed"
         /\ ret[self] = "false"
         /\ call[self].rounds) =>
            /\ rounds[self] # NotWritten
            /\ rounds[self] = r[self]
            /\ ~LessEq32(rounds[self], Yields(Mode(call[self].fn)))
            /\ call[self].timeout # U64(0)
            /\ ~Less64(now, t[self])

\* an AcquireExclusive (timeout, rounds) has returned false
TimedFalseWitness ==
    \E self \in Threads :
        /\ call[self].fn = "AcquireExclusiveTimed"
        /\ pc[self] = "return"
        /\ ret[self] = "false"
        /\ ~won[self]
        /\ state = ExclusivelyOwned

\* the call the thread is inside has acquired in one of the modes and has not
\* yet returned to the caller that builds the guard
Acquired(self, modes) ==
    IF won[self] /\ Mode(call[self].fn) \in modes THEN 1 ELSE 0

\* C18: for exclusive, upgraded and shared guards, across move construction,
\* move assignment, release () and destruction, every acquisition is released
\* exactly once: what a thread holds is what its active guards (and its
\* TryAcquireShared) acquired, the cell is what the holders hold, and
\* destroying an inactive guard leaves the cell alone.
GuardsReleaseOnce ==
    /\ Corresponds
    /\ \A self \in Threads :
        /\ holdX[self] = Active(self, "Exclusive") + Active(self, "Upgraded")
                            + Acquired(self, {"Exclusive", "Upgrade"})
        /\ holdS[self] + Active(self, "Upgraded") + Acquired(self, {"Upgrade"})
                = Active(self, "Shared") + ownS[self]
                    + (IF Copying(self) THEN 0 - 1 ELSE 0) + Acquired(self, {"Shared"})

\* a guard was moved: the moved-from first guard is inactive, the second
\* holds the exclusive acquisition
GuardsReleaseOnceWitness ==
    \E self \in Threads :
        /\ guard[self] = [kind |-> "Exclusive", lock |-> FALSE]
        /\ spare[self] = [kind |-> "Exclusive", lock |-> TRUE]
        /\ holdX[self] = 1
        /\ state = ExclusivelyOwned

\* the active shared guards of the threads 1 .. n
RECURSIVE SharedGuards(_)
SharedGuards(n) == IF n = 0 THEN 0 ELSE Active(n, "Shared") + SharedGuards(n - 1)

\* C19: copying an active shared guard acquires once more: whenever no
\* operation is in progress and no exclusive guard is active, the cell equals
\* the number of active shared guards (0 again once all are destroyed).
SharedGuardsCounted ==
    (/\ \A o \in Threads : pc[o] = "idle"
     /\ \A o \in Threads : Active(o, "Exclusive") = 0) =>
        state = SharedGuards(NumThreads)

\* a thread has copied its active shared guard: both are active, the cell
\* counts two
SharedGuardsCountedWitness ==
    /\ \A o \in Threads : pc[o] = "idle"
    /\ \E self \in Threads :
        /\ guard[self] = [kind |-> "Shared", lock |-> TRUE]
        /\ spare[self] = [kind |-> "Shared", lock |-> TRUE]
        /\ holdS[self] = 2
        /\ state = 2

\* C20: when upgrade () or upgrade (timeout) of a thread holding a shared
\* guard fails (no compare-exchange of the call succeeded), no step of the
\* call changes the cell, the upgraded guard returned is inactive, the shared
\* guard and the holds are as before, destroying the inactive upgraded guard
\* changes nothing of the lock, and upgrade () has made one attempt without
\* waiting.
UpgradeFailureKeepsShared ==
    [][\A self \in Threads :
        /\ (/\ Mode(call[self].fn) = "Upgrade"
            /\ pc'[self] # pc[self]
            /\ pc'[self] # "idle"
            /\ ~won'[self]) => state' = state
        /\ (/\ Mode(call[self].fn) = "Upgrade"
            /\ pc[self] = "return"
            /\ pc'[self] = "idle"
            /\ ~won[self]) =>
                /\ spare'[self] = [kind |-> "Upgraded", lock |-> FALSE]
                /\ guard'[self] = guard[self]
                /\ guard[self].kind = "Shared" => guard[self].lock
                /\ UNCHANGED lockVars
                /\ Kind(call[self].fn) = "try" => (r[self] = 0 /\ wait[self] = NoValue)
        /\ (/\ spare[self] = [kind |-> "Upgraded", lock |-> FALSE]
            /\ spare'[self] = NoGuard) => UNCHANGED lockVars
    ]_vars

\* the other threads hold nothing
Alone(self) == \A o \in Threads \ {self} : holdX[o] = 0 /\ holdS[o] = 0

\* C12: AcquireShared; TryUpgradeToExclusive (successful); DowngradeToShared;
\* ReleaseShared by one thread moves the cell 0 -> 1 -> -1 -> 1 -> 0 when it
\* is the only holder, so that the lock ends as it started, and from the
\* acquisition to the release no other thread acquires exclusively.
UpgradeCycleNeutral ==
    [][\A self \in Threads :
        /\ (/\ holdX[self] = 0 /\ holdX'[self] = 0
            /\ holdS'[self] = holdS[self] + 1
            /\ Alone(self)) => (state = 0 /\ state' = 1)
        /\ (holdX[self] = 0 /\ holdX'[self] = 1 /\ holdS[self] = 1) =>
                (state = 1 /\ state' = ExclusivelyOwned /\ holdS'[self] = 0)
        /\ (holdX[self] = 1 /\ holdX'[self] = 0 /\ Downgraded(self)') =>
                (state = ExclusivelyOwned /\ state' = 1 /\ holdS'[self] = 1 /\ Alone(self)')
        /\ (/\ holdX[self] = 0 /\ holdX'[self] = 0
            /\ holdS'[self] = holdS[self] - 1
            /\ Alone(self)) => (state = 1 /\ state' = 0)
        /\ (holdS[self] >= 1 \/ holdX[self] = 1) =>
                \A o \in Threads \ {self} : holdX'[o] = 0
        /\ (Alone(self) /\ holdX[self] = 0 /\ holdS[self] = 0) => state = 0
    ]_vars

\* a thread has upgraded, written and downgraded and holds the lock shared
\* again, and a TryAcquireExclusive of another thread has just failed
UpgradeCycleWitness ==
    \E self \in Threads :
        /\ Downgraded(self)
        /\ holdS[self] = 1
        /\ state = 1
        /\ entries >= 1
        /\ \E o \in Threads \ {self} :
            /\ call[o].fn = "TryAcquireExclusive"
            /\ pc[o] = "return"
            /\ ret[o] = "false"

\* a thread is waiting in AcquireExclusive: it has failed at least once
Waiting(w) == call[w].fn = "AcquireExclusive" /\ r[w] >= 1 /\ ~won[w]

\* C16: writers have no priority: the steps of a thread that waits in
\* AcquireExclusive leave the cell and the holds alone; a shared try-once that
\* reads a cell >= 0 goes on to its compare-exchange, and that succeeds
\* whenever the cell is still what was read, whether or not a thread waits in
\* AcquireExclusive and also when the thread already holds shared locks; and
\* with as many releases as acquisitions the cell is 0.
NoWriterPriority ==
    [][\A self \in Threads :
        /\ (/\ Mode(call[self].fn) = "Exclusive"
            /\ Took(self)
            /\ ~won'[self]) => UNCHANGED lockVars
        /\ (/\ Mode(call[self].fn) = "Shared"
            /\ Took(self)
            /\ pc[self] = "read"
            /\ state >= 0) => (pc'[self] = "cas" /\ s'[self] = state)
        /\ (/\ Mode(call[self].fn) = "Shared"
            /\ Took(self)
            /\ pc[self] = "cas"
            /\ state = s[self]) =>
                /\ won'[self]
                /\ state' = state + 1
                /\ holdS'[self] = holdS[self] + 1
        /\ (\A o \in Threads : pc[o] = "idle" /\ ownS[o] = 0 /\ ownX[o] = 0) => state = 0
    ]_vars

\* a thread that already held a shared lock has just acquired a second one
\* while another thread waits in AcquireExclusive
NoWriterPriorityWitness ==
    \E self \in Threads :
        /\ Mode(call[self].fn) = "Shared"
        /\ pc[self] = "return"
        /\ won[self]
        /\ ownS[self] = 1
        /\ holdS[self] = 2
        /\ state >= 2
        /\ \E w \in Threads \ {self} : Waiting(w) /\ wait[w] # NoValue

UpgradedGuardDowngrades ==
    [][\A self \in Threads :
        /\ Active(self, "Upgraded") = 1 =>
                (state = ExclusivelyOwned /\ holdX[self] = 1 /\ holdS[self] = 0)
        /\ (Active(self, "Upgraded") = 1 /\ Active(self, "Upgraded")' = 0) =>
                /\ state' = 1
                /\ holdX'[self] = 0
                /\ holdS'[self] = 1
                /\ Active(self, "Shared")' + ownS'[self] = 1
                /\ Active(self, "Shared")' = Active(self, "Shared")
                /\ ownS'[self] = ownS[self]
        /\ (/\ Active(self, "Upgraded") = 0
            /\ pc[self] = "idle" /\ pc'[self] = "idle"
            /\ Active(self, "Shared") + ownS[self] = 1
            /\ Active(self, "Shared")' + ownS'[self] = 0
            /\ Alone(self)) => (state = 1 /\ state' = 0)
    ]_vars

\* a thread's upgrade has succeeded: its shared guard and its upgraded guard
\* are both active
UpgradedGuardWitness ==
    \E self \in Threads :
        /\ pc[self] = "idle"
        /\ guard[self] = [kind |-> "Shared", lock |-> TRUE]
        /\ spare[self] = [kind |-> "Upgraded", lock |-> TRUE]
        /\ state = ExclusivelyOwned

\* what the guards of a thread stand for: the parent guard counts unless its
\* lock is temporarily unlocked
Guarded(self, kind) ==
    IF guard[self] = [kind |-> kind, lock |-> TRUE] /\ ~InUnlocked(self) THEN 1 ELSE 0

\* C22: temporarily_unlock () of an active exclusive guard releases at once
\* (cell -1 -> 0) without writing *rounds; inside the sub-scope the thread
\* holds nothing; the sub-guard ends its unlocked state only by an
\* AcquireExclusive of its own that has succeeded, the only step that writes
\* *rounds; destroying it after restore () changes nothing; and outside the
\* sub-scope an active exclusive guard means its thread is the holder.
ExclusiveUnlockRestores ==
    [][\A self \in Threads :
        /\ (spare[self] = NoGuard /\ spare'[self] = [kind |-> "ExclusiveUnlocked", lock |-> TRUE]) =>
                /\ state = ExclusivelyOwned /\ state' = 0
                /\ holdX'[self] = 0
                /\ rounds' = rounds
        /\ (spare[self].kind = "ExclusiveUnlocked" /\ spare[self].lock /\ ~won[self]) =>
                (holdX[self] = 0 /\ holdS[self] = 0)
        /\ (/\ spare[self] = [kind |-> "ExclusiveUnlocked", lock |-> TRUE]
            /\ spare'[self] # spare[self]) =>
                /\ won[self] /\ call[self].fn = "AcquireExclusive"
                /\ state' = ExclusivelyOwned
                /\ holdX'[self] = 1
                /\ Alone(self)'
        /\ (/\ spare[self] = [kind |-> "ExclusiveUnlocked", lock |-> FALSE]
            /\ spare'[self] # spare[self]) =>
                (spare'[self] = NoGuard /\ pc'[self] = "idle" /\ UNCHANGED lockVars)
        /\ (rounds'[self] # rounds[self] /\ rounds'[self] # NotWritten) => won'[self]
        /\ (pc[self] = "idle" /\ Guarded(self, "Exclusive") = 1) =>
                (state = ExclusivelyOwned /\ holdX[self] = 1)
    ]_vars

\* inside the sub-scope of one thread another thread has taken the lock, and
\* the destructor of the sub-guard waits in AcquireExclusive
ExclusiveUnlockWitness ==
    \E self \in Threads :
        /\ guard[self] = [kind |-> "Exclusive", lock |-> TRUE]
        /\ spare[self] = [kind |-> "ExclusiveUnlocked", lock |-> TRUE]
        /\ call[self].fn = "AcquireExclusive"
        /\ r[self] >= 1
        /\ \E o \in Threads \ {self} : holdX[o] = 1 /\ pc[o] = "idle"

\* C23: temporarily_unlock () of an active shared guard takes exactly one
\* from the cell; inside the sub-scope the thread holds nothing; the restore
\* does not get past a cell of -1, and the sub-guard ends its unlocked state
\* only by an AcquireShared of its own that has succeeded; outside the
\* sub-scope an active shared guard stands for one shared hold, and the cell
\* is what the holders hold.
SharedUnlockRestores ==
    [][\A self \in Threads :
        /\ (spare[self] = NoGuard /\ spare'[self] = [kind |-> "SharedUnlocked", lock |-> TRUE]) =>
                /\ state >= 1 /\ state' = state - 1
                /\ holdS[self] = 1 /\ holdS'[self] = 0
                /\ guard'[self] = guard[self]
        /\ (spare[self].kind = "SharedUnlocked" /\ spare[self].lock /\ ~won[self]) =>
                (holdX[self] = 0 /\ holdS[self] = 0)
        /\ (/\ spare[self] = [kind |-> "SharedUnlocked", lock |-> TRUE]
            /\ pc[self] = "read"
            /\ state = ExclusivelyOwned
            /\ Took(self)) => (pc'[self] # "cas" /\ ~won'[self] /\ UNCHANGED lockVars)
        /\ (/\ spare[self] = [kind |-> "SharedUnlocked", lock |-> TRUE]
            /\ spare'[self] # spare[self]) =>
                /\ won[self] /\ call[self].fn = "AcquireShared"
                /\ state' >= 1
                /\ holdS'[self] = 1
        /\ (pc[self] = "idle" /\ Guarded(self, "Shared") = 1) => holdS[self] = 1
        /\ Corresponds
    ]_vars

\* inside the sub-scope of a reader another thread has taken the lock
\* exclusively, and the destructor of the sub-guard waits in AcquireShared
SharedUnlockWitness ==
    \E self \in Threads :
        /\ guard[self] = [kind |-> "Shared", lock |-> TRUE]
        /\ spare[self] = [kind |-> "SharedUnlocked", lock |-> TRUE]
        /\ call[self].fn = "AcquireShared"
        /\ r[self] >= 1
        /\ \E o \in Threads \ {self} : holdX[o] = 1 /\ pc[o] = "idle"

\* C24: in the DataInsertionProcedure of the README run by all threads, the
\* insertion is made only while the cell is -1 and the caller is the only
\* holder of the lock, at the place found under the shared lock; a thread
\* that releases to return or to retry holds nothing afterwards; and once
\* every thread has returned the cell is 0 and no insertion was lost
InsertionIsExclusive ==
    [][\A self \in Threads :
        /\ (cs[self] # "written" /\ cs'[self] = "written") =>
                /\ state = ExclusivelyOwned
                /\ Alone(self)
                /\ holdX[self] = 1
                /\ seen[self] = sum
        /\ (cs[self] \in {"written", "failed"} /\ cs'[self] = "out") =>
                /\ holdX'[self] = 0
                /\ holdS'[self] = 0
                /\ HoldsNothing(self)'
        /\ (\A o \in Threads : InsertReturned(o))' =>
                /\ state' = 0
                /\ sum' = entries'
                /\ entries' = NumThreads * Cycles
    ]_vars

\* a thread has inserted and still holds the lock exclusively while another
\* thread waits in the AcquireShared of its own insertion
InsertionWitness ==
    \E self \in Threads : \E o \in Threads \ {self} :
        /\ cs[self] = "written"
        /\ state = ExclusivelyOwned
        /\ entries >= 1
        /\ pc[o] = "read"
        /\ call[o].fn = "AcquireShared"
        /\ r[o] >= 1

\* C25: while two threads each hold one shared lock, an
\* UpgradeToExclusive (timeout) of either of them does not succeed: the call
\* returns false, and the cell is 2 before and after its return.
ContendingUpgradesFail ==
    [][\A self \in Threads : \A o \in Threads \ {self} :
        (/\ call[self].fn = "UpgradeToExclusiveTimed"
         /\ pc[self] = "return"
         /\ pc'[self] = "idle"
         /\ holdS[self] = 1
         /\ holdS[o] = 1
         /\ \A q \in Threads \ {self, o} : holdS[q] = 0 /\ holdX[q] = 0) =>
                /\ ret[self] = "false"
                /\ state = 2
                /\ state' = 2
    ]_vars

\* C26: the cell is -1 or a count from 0 to the largest value of StateType,
\* and a TryAcquireShared () that has read the largest value does not
\* succeed and leaves the cell as it is
CounterInRange ==
    /\ state = ExclusivelyOwned \/ (0 <= state /\ state <= StateMax)
    /\ \A self \in Threads :
            (pc[self] = "return" /\ call[self].fn = "TryAcquireShared" /\ s[self] = StateMax)
                => ret[self] = "false"

\* the thread is between its DowngradeToShared and its ReleaseShared
AfterDowngrade(self) ==
    /\ cs[self] \in {"written", "reread"}
    /\ holdX[self] = 0
    /\ holdS[self] = 1

\* C27: DowngradeToShared by the exclusive holder takes the cell from -1 to 1
\* in one step; from then to the holder's ReleaseShared no thread acquires
\* exclusively and the protected word is not written, while shared
\* acquisitions of other threads succeed whenever the cell is still what they
\* read; the word the holder reads after the downgrade and the word a reader
\* reads under a shared lock in that time is the word the holder has written.
DowngradeKeepsWord ==
    [][\A self \in Threads :
        /\ (holdX[self] = 1 /\ holdX'[self] = 0 /\ cs[self] = "written") =>
                /\ state = ExclusivelyOwned
                /\ state' = 1
                /\ AfterDowngrade(self)'
        /\ AfterDowngrade(self) =>
                /\ state >= 1
                /\ sum' = sum
                /\ sum = Written(self)
                /\ \A o \in Threads : holdX'[o] = 0
                /\ AfterDowngrade(self)' \/ state' = state - 1
                /\ \A o \in Threads \ {self} :
                        /\ (pc[o] = "cas" /\ pc'[o] # "cas" /\ s[o] = state
                                /\ Mode(call[o].fn) = "Shared") =>
                                    (won'[o] /\ state' = state + 1)
                        /\ (cs[o] = "out" /\ cs'[o] = "peeked") =>
                                    seen'[o] = Written(self)
        /\ (cs[self] = "written" /\ cs'[self] = "reread") =>
                seen'[self] = Written(self)
    ]_vars

\* a reader has acquired shared after the writer's downgrade and has read
\* the word while the writer, which has read it too, still holds its shared
\* lock
DowngradeWitness ==
    \E self \in Threads : \E o \in Threads \ {self} :
        /\ AfterDowngrade(self)
        /\ cs[self] = "reread"
        /\ cs[o] = "peeked"
        /\ holdS[o] = 1
        /\ state = 2
        /\ seen[o] = seen[self]
        /\ seen[o] >= 1

\* the timed call of the thread has not read its timeout, or has read 0
ZeroTimeout(self) ==
    /\ Kind(call[self].fn) = "timed"
    /\ call[self].timeout \in {Unread, U64(0)}

\* C28: a timed acquire called with timeout 0 never enters the contested
\* loop: it reads no clock, its only waits are YieldProcessor (), at most
\* Yields of them, no SwitchToThread () and no Sleep (), and it makes at most
\* Yields + 1 try-once attempts, the last of them followed by no wait.
ZeroTimeoutNeverContested ==
    [][\A self \in Threads :
        LET m == Mode(call[self].fn)
        IN  ZeroTimeout(self) =>
                /\ ~contested[self]
                /\ t[self] = U64(0)
                /\ wait[self] = (IF r[self] = 0 THEN NoValue ELSE "YieldProcessor")
                /\ r[self] <= Yields(m) + 1
                /\ pc[self] \in {"read", "cas"} => r[self] <= Yields(m)
                /\ (call'[self] = call[self] /\ pc[self] \in {"read", "cas"}) =>
                        /\ r'[self] \in {r[self], r[self] + 1}
                        /\ r'[self] = r[self] + 1 =>
                                /\ ~won'[self]
                                /\ IF r[self] < Yields(m)
                                   THEN wait'[self] = "YieldProcessor" /\ pc'[self] = "read"
                                   ELSE wait'[self] = wait[self] /\ pc'[self] = "return"
                        /\ t'[self] = t[self]
                        /\ ~contested'[self]
    ]_vars

\* a timed acquire has read the timeout 0 after Yields + 1 failed try-once
\* attempts and Yields YieldProcessor (), and returns
ZeroTimeoutWitness ==
    \E self \in Threads :
        /\ Kind(call[self].fn) = "timed"
        /\ call[self].timeout = U64(0)
        /\ pc[self] = "return"
        /\ r[self] = Yields(Mode(call[self].fn)) + 1
        /\ wait[self] = "YieldProcessor"
        /\ ~contested[self]
        /\ t[self] = U64(0)

\* C29: an acquire that succeeds writes to *rounds the number of try-once
\* attempts of the call that failed before: r starts at 0, every failed
\* attempt makes it one larger, nothing else changes it, and the successful
\* attempt writes it as it is; an acquire that succeeds at once writes 0.
RoundsCountFailures ==
    [][\A self \in Threads :
        /\ (pc[self] = "idle" /\ pc'[self] = "read") => r'[self] = 0
        /\ (/\ Kind(call[self].fn) \in {"acquire", "timed"}
            /\ pc[self] \in {"read", "cas"}) =>
                /\ (pc[self] = "cas" /\ pc'[self] = "read") => r'[self] # r[self]
                /\ r'[self] # r[self] =>
                        /\ ~won'[self]
                        /\ r[self] # UInt32Max
                        /\ r'[self] = Inc32(r[self])
                /\ won'[self] =>
                        /\ r'[self] = r[self]
                        /\ call[self].rounds => rounds'[self] = r[self]
    ]_vars

\* the order of the waits of an acquire loop
Phase(w) ==
    CASE w = NoValue -> 0
      [] w = "YieldProcessor" -> 1
      [] w = "Sleep0" -> 2
      [] w = "Sleep1" -> 3
      [] OTHER -> 4

\* C30: in AcquireExclusive () and AcquireShared () without timeout every
\* failed try-once is followed by one wait: YieldProcessor () while the
\* number r of the failure is at most Yields, Sleep (0) while it is at most
\* Yields + Sleep0s, Sleep (1) beyond (Yields 125 and Sleep0s 2 for
\* exclusive, 120 and 7 for shared); and within one call a wait is never
\* followed by a wait of an earlier phase.
BackoffPhasesInOrder ==
    [][\A self \in Threads :
        LET m == Mode(call[self].fn)
        IN  (/\ Kind(call[self].fn) = "acquire"
             /\ call'[self] = call[self]
             /\ r'[self] # r[self]) =>
                /\ r'[self] = Inc32(r[self])
                /\ pc'[self] = "read"
                /\ wait'[self] =
                        (IF LessEq32(r'[self], Yields(m)) THEN "YieldProcessor"
                         ELSE IF LessEq32(r'[self], Yields(m) + Sleep0s(m)) THEN "Sleep0"
                         ELSE "Sleep1")
                /\ Yields(m) = (IF m = "Exclusive" THEN 125 ELSE 120)
                /\ Sleep0s(m) = (IF m = "Exclusive" THEN 2 ELSE 7)
                /\ Phase(wait'[self]) >= Phase(wait[self])
    ]_vars

\* C31: in a timed acquire with a timeout above 0 the deadline
\* t = GetTickCount64 () + timeout is computed once, not at the entry of the
\* call but at the first failure whose number exceeds Yields, and is followed
\* by the only SwitchToThread () of the call and then by a try-once; the
\* waits of the contested loop are sleeps; and the call returns false only
\* in the step of a failed try-once of the contested loop at which the clock
\* is not below t.
DeadlineComputedOnce ==
    [][\A self \in Threads :
        LET m == Mode(call[self].fn)
        IN  /\ (pc[self] = "idle" /\ pc'[self] = "read") =>
                    (t'[self] = U64(0) /\ ~contested'[self] /\ wait'[self] = NoValue)
            /\ (Kind(call[self].fn) = "timed" /\ pc'[self] # "idle") =>
                    /\ (~contested[self] /\ contested'[self]) =>
                            /\ pc[self] \in {"read", "cas"}
                            /\ ~won'[self]
                            /\ r[self] = Yields(m)
                            /\ r'[self] = Yields(m) + 1
                            /\ call'[self].timeout # U64(0)
                            /\ t'[self] = Add64(now, call'[self].timeout)
                            /\ wait'[self] = "SwitchToThread"
                            /\ pc'[self] = "read"
                    /\ (~contested[self] /\ ~contested'[self]) =>
                            (t'[self] = U64(0) /\ wait'[self] # "SwitchToThread")
                    /\ contested[self] =>
                            /\ contested'[self]
                            /\ t'[self] = t[self]
                            /\ call'[self] = call[self]
                            /\ r'[self] # r[self] =>
                                    (wait'[self] \in {"Sleep0", "Sleep1"} /\ Less64(now, t[self]))
                    /\ (ret[self] # "false" /\ ret'[self] = "false") =>
                            /\ contested[self]
                            /\ pc[self] \in {"read", "cas"}
                            /\ ~won'[self]
                            /\ ~Less64(now, t[self])
                            /\ pc'[self] = "return"
    ]_vars

\* the deadline of a timed acquire has just been computed: SwitchToThread ()
\* was the last wait and the first try-once of the contested loop is to come
DeadlineWitness ==
    \E self \in Threads :
        /\ Kind(call[self].fn) = "timed"
        /\ contested[self]
        /\ pc[self] = "read"
        /\ wait[self] = "SwitchToThread"
        /\ r[self] = Yields(Mode(call[self].fn)) + 1
        /\ t[self] = Add64(now, call[self].timeout)
        /\ call[self].timeout # U64(0)

\* C32: every timed acquire, whatever its mode and its timeout, returns:
\* with the clock advancing and the calling thread scheduled, a thread that
\* is inside a timed call reaches the return of the call, whether or not
\* the other threads ever release the lock.
TimedAcquireReturns ==
    \A self \in Threads :
        (Kind(call[self].fn) = "timed" /\ pc[self] # "return")
            ~> (Kind(call[self].fn) = "timed" /\ pc[self] = "return")

\* a timed acquire waits in its contested loop, before its deadline, for a
\* lock that another thread holds exclusively
TimedAcquireWitness ==
    \E self \in Threads : \E o \in Threads \ {self} :
        /\ Kind(call[self].fn) = "timed"
        /\ contested[self]
        /\ Less64(now, t[self])
        /\ r[self] > Yields(Mode(call[self].fn)) + 1
        /\ holdX[o] = 1
        /\ state = ExclusivelyOwned

\* C33: the counter r of an acquire loop saturates at the largest
\* std::uint32_t: a failed round at 2^32 - 1 leaves it there, so during one
\* call r, the value reported in *rounds, never decreases, and a call that
\* has slept does not go back to YieldProcessor ().
CounterSaturates ==
    [][\A self \in Threads :
        (/\ Kind(call[self].fn) \in {"acquire", "timed"}
         /\ call'[self] = call[self]
         /\ pc[self] \in {"read", "cas"}) =>
            /\ r[self] = UInt32Max => r'[self] = UInt32Max
            /\ LessEq32(r[self], r'[self])
            /\ wait[self] \in {"Sleep0", "Sleep1"} => wait'[self] # "YieldProcessor"
    ]_vars

\* C34: on a lock that is never held exclusively a shared try-once still
\* fails when the cell is no longer what it has read: its compare-exchange
\* then stores nothing, TryAcquireShared () returns false at once, without a
\* second attempt and without a wait, and AcquireShared () counts the
\* failure in r and tries again, reporting r in *rounds when it succeeds.
SharedFailsSpuriously ==
    [][/\ state >= 0
       /\ ExclusiveHolders = {}
       /\ \A self \in Threads :
            /\ (pc[self] = "read" /\ Took(self)) => (pc'[self] = "cas" /\ r'[self] = r[self])
            /\ (pc[self] = "cas" /\ Took(self)) =>
                    IF state = s[self]
                    THEN /\ won'[self]
                         /\ state' = state + 1
                         /\ call[self].rounds => rounds'[self] = r[self]
                    ELSE /\ ~won'[self]
                         /\ state' = state
                         /\ holdS'[self] = holdS[self]
                         /\ Kind(call[self].fn) = "try" =>
                                /\ pc'[self] = "return"
                                /\ ret'[self] = "false"
                                /\ r'[self] = 0
                                /\ wait'[self] = NoValue
                         /\ Kind(call[self].fn) = "acquire" =>
                                /\ pc'[self] = "read"
                                /\ r'[self] = r[self] + 1
                                /\ ret'[self] = NoValue
      ]_vars

\* a TryAcquireShared () has returned false and an AcquireShared (rounds) of
\* another thread has reported one round, on a lock that only readers use
SharedFailsWitness ==
    \E self \in Threads : \E o \in Threads \ {self} :
        /\ call[self].fn = "TryAcquireShared"
        /\ pc[self] = "return"
        /\ ret[self] = "false"
        /\ call[o].fn = "AcquireShared"
        /\ pc[o] = "return"
        /\ won[o]
        /\ rounds[o] = 1
        /\ state >= 1

\* no thread holds the lock in either mode
NobodyHolds == \A o \in Threads : holdX[o] = 0 /\ holdS[o] = 0

\* C35: a ForceUnlock on a lock in use stores 0 whoever holds the lock. The
\* ReleaseShared of a holder that finds the cell at 0 leaves -1 in it and
\* makes nobody an exclusive holder; when the cell is -1 and nobody holds, every try-once fails and the cell stays
\* -1 until the next ForceUnlock; and while a thread holds exclusively and
\* the cell is 0, the exclusive compare-exchange of another thread succeeds,
\* so that two threads hold exclusively.
ForceUnlockInUseBreaks ==
    [][/\ (state # 0 /\ state' = 0 /\ UNCHANGED << holdX, holdS >>) =>
            (NobodyHolds \/ ~Corresponds')
       /\ (state = ExclusivelyOwned /\ NobodyHolds) =>
            /\ NobodyHolds'
            /\ \A self \in Threads : ~won'[self]
            /\ state' = ExclusivelyOwned \/ (state' = 0 /\ UNCHANGED callVars)
       /\ \A self \in Threads :
            /\ (state = 0 /\ holdS[self] >= 1 /\ holdS'[self] = holdS[self] - 1) =>
                    (state' = ExclusivelyOwned /\ ExclusiveHolders' = ExclusiveHolders)
            /\ (/\ state = 0 /\ pc[self] = "cas" /\ Took(self)
                /\ Mode(call[self].fn) = "Exclusive"
                /\ \E h \in Threads \ {self} : holdX[h] = 1) =>
                    /\ won'[self]
                    /\ state' = ExclusivelyOwned
                    /\ \E h \in Threads \ {self} : holdX'[h] = 1 /\ holdX'[self] = 1
      ]_vars

\* after a ForceUnlock and the ReleaseShared of the holder the cell is -1,
\* nobody holds, and a TryAcquireShared () and a TryAcquireExclusive () have
\* returned false
ForceUnlockInUseWitness ==
    /\ state = ExclusivelyOwned
    /\ NobodyHolds
    /\ \E self \in Threads : \E o \in Threads \ {self} :
        /\ call[self].fn = "TryAcquireShared"
        /\ pc[self] = "return"
        /\ ret[self] = "false"
        /\ call[o].fn = "TryAcquireExclusive"
        /\ pc[o] = "return"
        /\ ret[o] = "false"

\* C36: a call of a try-once or of an acquire writes the cell at most once,
\* in the step of its compare-exchange that succeeds, which is the last step
\* of the call before its return; every other step of the call leaves the
\* cell and the holds as they are, and a call that returns false has never
\* succeeded in a compare-exchange, so it has written nothing.
FailedCallWritesNothing ==
    [][\A self \in Threads :
        /\ Took(self) =>
                /\ ~won[self]
                /\ IF won'[self]
                   THEN /\ pc[self] = "cas"
                        /\ pc'[self] = "return"
                        /\ ret'[self] # "false"
                        /\ state' # state
                   ELSE /\ state' = state
                        /\ UNCHANGED << holdX, holdS >>
        /\ (pc[self] = "return" /\ ret[self] = "false") => ~won[self]
        /\ (pc[self] = "return" /\ pc'[self] = "return") =>
                (won'[self] = won[self] /\ ret'[self] = ret[self])
    ]_vars

\* an AcquireShared (timeout, rounds) has returned false from its contested
\* loop while another thread holds the lock exclusively
FailedCallWitness ==
    \E self \in Threads : \E o \in Threads \ {self} :
        /\ call[self].fn = "AcquireSharedTimed"
        /\ pc[self] = "return"
        /\ ret[self] = "false"
        /\ contested[self]
        /\ ~won[self]
        /\ holdX[o] = 1
        /\ state = ExclusivelyOwned

\* ------------------------------------------- the copy of an inactive guard
\* lock.share (timeout, rounds) by a thread without guards:
\* if (this->AcquireShared (timeout, rounds)) return this; else return nullptr
ShareTimedBegin(self) ==
    /\ NoGuards(self)
    /\ ownS[self] = 0
    /\ self = TimedCaller
    /\ Informed
    /\ Corresponds
    /\ Begin(self, [fn |-> "AcquireSharedTimed", timeout |-> Unread, rounds |-> TRUE])

\* RwSpinLockScopeShared (const RwSpinLockScopeShared & from) : lock (from.lock)
\* { this->lock->AcquireShared (); }, of the second guard from an inactive
\* first: from.lock is nullptr and the constructor does not test it, so that
\* AcquireShared is called through a null pointer. The behaviour is undefined:
\* either the read of this->state at the null address faults and ends the
\* process, or the build makes nothing of the call and the copy is left with
\* the null pointer it was initialised with
CopyConstructNull(self) ==
    /\ pc[self] = "idle"
    /\ guard[self] = [kind |-> "Shared", lock |-> FALSE]
    /\ spare[self] = NoGuard
    /\ spare' = [spare EXCEPT ![self] = guard[self]]
    /\ \/ pc' = [o \in Threads |-> "fault"]
       \/ pc' = pc
    /\ UNCHANGED << call, r, s, contested, t, wait, ret, won, rounds >>
    /\ UNCHANGED << guard, ownX, ownS, lockVars, dataVars, now >>

\* threads that take the lock through guards, one of them also with a
\* timeout, and copy the shared guards, active or not
NextCopyNull ==
    \/ Tick
    \/ \E self \in Threads :
        \/ GuardsBegin(self)
        \/ ShareTimedBegin(self)
        \/ GuardsResume(self)
        \/ TryAcquireExclusiveRead(self)
        \/ TryAcquireExclusiveCAS(self)
        \/ TryAcquireSharedRead(self)
        \/ TryAcquireSharedCAS(self)
        \/ CopyConstruct(self)
        \/ CopyConstructNull(self)
        \/ CopyAssign(self)
        \/ CopyResume(self)
        \/ GuardsRelease(self)
        \/ SpareRelease(self)
        \/ SpareDestroy(self)

SpecCopyNull == Init /\ [][NextCopyNull]_vars

\* C37: the copy constructor of a shared guard, given an inactive guard (one
\* that share (timeout) returned after it timed out, or one that was
\* released), leaves the copy inactive, returns, and does not touch the lock
CopyOfInactiveIsInactive ==
    [][\A self \in Threads :
        (/\ pc[self] = "idle"
         /\ guard[self] = [kind |-> "Shared", lock |-> FALSE]
         /\ spare[self] = NoGuard
         /\ spare'[self] # NoGuard) =>
            /\ spare'[self] = [kind |-> "Shared", lock |-> FALSE]
            /\ pc'[self] = "idle"
            /\ state' = state
            /\ UNCHANGED << holdX, holdS >>
    ]_vars

\* ------------------------------------------------------- very long timeouts
\* timeouts near the largest std::uint64_t, as passed by a caller that
\* means to wait without limit
FarTimeouts == { UInt64Max, Add64(UInt64Max, UInt64Max) }

\* a timed acquire with one of them
FarBegin(self) ==
    /\ self = TimedCaller
    /\ Informed
    /\ Corresponds
    /\ \E c \in TimedCalls, timeout \in FarTimeouts :
            Begin(self, [c EXCEPT !.timeout = timeout])

NextFar ==
    \/ Tick
    \/ \E self \in Threads :
        \/ BeginTry(self)
        \/ FarBegin(self)
        \/ TryOnce(self)
        \/ Resume(self)
        \/ ReleaseExclusive(self)
        \/ ReleaseShared(self)

SpecFar == Init /\ [][NextFar]_vars

\* C38: the deadline now + timeout of a timed acquire is not below now
\* (the 64-bit sum has not wrapped), and the call returns false only when the
\* clock has advanced by at least timeout since the deadline was computed:
\* the deadline is not below the timeout (a wrapped sum is below both its
\* terms) and the clock is not below the deadline
TimeoutElapses ==
    [][\A self \in Threads :
        Kind(call[self].fn) = "timed" =>
            /\ (~contested[self] /\ contested'[self]) =>
                    /\ t'[self] = Add64(now, call'[self].timeout)
                    /\ ~Less64(t'[self], now)
            /\ (ret[self] # "false" /\ ret'[self] = "false") =>
                    /\ call[self].timeout # U64(0)
                    /\ ~Less64(t[self], call[self].timeout)
                    /\ ~Less64(now, t[self])
    ]_vars

\* ------------------------------------------------------------------ progress
\* the thread is inside while (!this->Try... ()) of an acquire without timeout
InAcquire(self) ==
    /\ Kind(call[self].fn) = "acquire"
    /\ pc[self] \in {"read", "cas"}

\* a round of AcquireExclusive or AcquireShared after the MaxRounds that are
\* counted: the compare-exchange of the try-once fails, the loop waits and
\* tries again. r stands at MaxRounds for all the later rounds; a test that
\* fails in such a round changes nothing and is not a step
LaterRound(self) ==
    /\ InAcquire(self)
    /\ pc[self] = "cas"
    /\ r[self] = MaxRounds
    /\ \/ /\ Mode(call[self].fn) = "Exclusive"
          /\ TryAcquireExclusiveExchange(state).result # 0
          /\ state' = TryAcquireExclusiveExchange(state).cell
       \/ /\ Mode(call[self].fn) = "Shared"
          /\ TryAcquireSharedExchange(state, s[self]).result # s[self]
          /\ state' = TryAcquireSharedExchange(state, s[self]).cell
    /\ pc' = [pc EXCEPT ![self] = "read"]
    /\ UNCHANGED << call, r, s, contested, t, wait, ret, won, rounds >>
    /\ UNCHANGED << holdX, holdS, ownerVars, dataVars, now >>

NextProgress ==
    \E self \in Threads :
        \/ BeginTry(self)
        \/ BeginAcquire(self)
        \/ TryOnce(self)
        \/ LaterRound(self)
        \/ Resume(self)
        \/ ScopeResume(self)
        \/ Release(self)

\* every thread inside a call goes on with it, every call that has returned
\* is returned from, and every thread that holds the lock releases it in the
\* end; no thread has to call again
SpecProgress ==
    /\ Init
    /\ [][NextProgress]_vars
    /\ \A self \in Threads :
        /\ WF_vars(TryOnce(self) \/ LaterRound(self))
        /\ WF_vars(Resume(self) \/ ScopeResume(self))
        /\ WF_vars(Release(self))

\* C39 as stated: whenever the lock is free and a thread waits in
\* AcquireExclusive or AcquireShared, one of the waiting threads acquires
WaiterAcquires ==
    (state = 0 /\ \E self \in Threads : InAcquire(self))
        ~> (\E self \in Threads : Kind(call[self].fn) = "acquire" /\ won[self])

\* C39 amended: whenever the lock is free and a thread waits in
\* AcquireExclusive or AcquireShared, some thread acquires the lock, be it a
\* waiting one or the caller of a try-once function
SomeoneAcquires ==
    (state = 0 /\ \E self \in Threads : InAcquire(self))
        ~> (\E o \in Threads : holdX[o] + holdS[o] >= 1)

\* a thread has acquired in AcquireExclusive or AcquireShared after a
\* round in which it failed
SomeoneAcquiresWitness ==
    \E self \in Threads :
        /\ Kind(call[self].fn) = "acquire"
        /\ pc[self] = "return"
        /\ won[self]
        /\ r[self] >= 1

\* ------------------------------------------------------------------- BmAlloc
\* a word of the bitmap is the set of the positions of its set bits
\* ~ word
Not(word) == (0 .. (width - 1)) \ word

\* _BitScanForward64 (index, mask): whether mask has a set bit, and the
\* position of the lowest one (index is read only when there is one)
BitScanForwardPtr(mask) ==
    IF mask = {}
    THEN [found |-> FALSE, index |-> 0]
    ELSE [found |-> TRUE, index |-> CHOOSE i \in mask : \A j \in mask : i <= j]

\* _bittestandreset64 (word, index): the bit as it was, and the word without it
BitTestAndResetForwardPtr(word, index) ==
    [returned |-> index \in word, word |-> word \ {index}]

\* BmAlloc::Requirement (n): words of a buffer of n bits
Requirement(n) == (n - 1) \div width + 1

\* for (w = 0; w != words; ++w): the first whole word of data, from w on, in
\* which BitScanForwardPtr finds an unset bit, or words when there is none
RECURSIVE ScanWords(_, _, _)
ScanWords(data, w, words) ==
    IF w = words THEN words
    ELSE IF BitScanForwardPtr(Not(data[w + 1])).found THEN w
    ELSE ScanWords(data, w + 1, words)

\* bool BmAlloc::acquire (std::size_t * result), result being what *result
\* holds at the call: the bitmap, *result and the value returned
acquire(data, size, result) ==
    LET words == size \div width
        w == ScanWords(data, 0, words)
        rest == size % width
    IN  IF w # words
        THEN LET index == BitScanForwardPtr(Not(data[w + 1])).index
             IN  \* this->data [w] |= 1 << index; *result = w * width + index
                 [data |-> [data EXCEPT ![w + 1] = @ \cup {index}],
                  result |-> U64(w * width + index),
                  returned |-> TRUE]
        ELSE IF /\ rest # 0
                /\ BitScanForwardPtr(Not(data[words + 1])).found
                /\ BitScanForwardPtr(Not(data[words + 1])).index < rest
        THEN LET index == BitScanForwardPtr(Not(data[words + 1])).index
             IN  \* this->data [words] |= 1 << index; *result += words * width + index
                 [data |-> [data EXCEPT ![words + 1] = @ \cup {index}],
                  result |-> Add64(result, U64(words * width + index)),
                  returned |-> TRUE]
        ELSE [data |-> data, result |-> result, returned |-> FALSE]

\* bool BmAlloc::release (std::size_t index)
release(data, index) ==
    LET bit == BitTestAndResetForwardPtr(data[index \div width + 1], index % width)
    IN  [data |-> [data EXCEPT ![index \div width + 1] = bit.word],
         returned |-> bit.returned]

\* the sizes, in bits, of the bitmaps given to BmAlloc
Sizes == { w * width + k : w \in 0 .. MaxWords, k \in 0 .. MaxRest } \ {0}

\* what the variable passed as index may hold before the call
Priors == { U64(0), U64(1), UInt64Max }

\* the indices that are released
Released(size) == { 0, width - 1, width, size - 1 } \cap (0 .. (size - 1))

\* BmAlloc allocator (data, size) over a zeroed buffer of Requirement (size)
\* words
BmConstruct ==
    /\ allocator = NoAllocator
    /\ \E size \in Sizes :
            allocator' = [data |-> [w \in 1 .. Requirement(size) |-> {}],
                          size |-> size,
                          index |-> U64(0),
                          returned |-> FALSE,
                          op |-> "constructed"]
    /\ UNCHANGED << lockVars, callVars, ownerVars, now, sum, seen, cs, left, entries >>

\* allocator.acquire (&index), the variable holding what it was left with or
\* one of Priors
BmAcquire ==
    /\ allocator.op # "none"
    /\ \E prior \in Priors \cup {allocator.index} :
            LET out == acquire(allocator.data, allocator.size, prior)
            IN  allocator' = [allocator EXCEPT !.data = out.data,
                                                !.index = out.result,
                                                !.returned = out.returned,
                                                !.op = "acquire"]
    /\ UNCHANGED << lockVars, callVars, ownerVars, now, sum, seen, cs, left, entries >>

\* index = i; allocator.release (index)
BmRelease ==
    /\ allocator.op # "none"
    /\ \E i \in Released(allocator.size) :
            LET out == release(allocator.data, i)
            IN  allocator' = [allocator EXCEPT !.data = out.data,
                                                !.index = U64(i),
                                                !.returned = out.returned,
                                                !.op = "release"]
    /\ UNCHANGED << lockVars, callVars, ownerVars, now, sum, seen, cs, left, entries >>

NextAlloc == BmConstruct \/ BmAcquire \/ BmRelease

SpecAlloc == Init /\ [][NextAlloc]_vars

\* the bits of the bitmap, numbered through the words, that are set
SetBits(a) ==
    { b \in 0 .. (Len(a.data) * width - 1) : b % width \in a.data[b \div width + 1] }

\* C40: acquire sets the lowest unset bit among the first size bits, stores
\* its number in the index and returns true, whatever the index held before;
\* when all of the first size bits are set it returns false and leaves the
\* bitmap as it was; release clears the bit of its index and no other
AcquireLowestUnset ==
    [][LET unset == (0 .. (allocator.size - 1)) \ SetBits(allocator)
       IN  /\ (allocator'.op = "acquire" /\ unset # {}) =>
                    \E b \in unset :
                        /\ \A c \in unset : b <= c
                        /\ SetBits(allocator') = SetBits(allocator) \cup {b}
                        /\ allocator'.index = U64(b)
                        /\ allocator'.returned
           /\ (allocator'.op = "acquire" /\ unset = {}) =>
                    /\ SetBits(allocator') = SetBits(allocator)
                    /\ ~allocator'.returned
           /\ allocator'.op = "release" =>
                    \E b \in 0 .. (allocator.size - 1) :
                        /\ allocator'.index = U64(b)
                        /\ SetBits(allocator') = SetBits(allocator) \ {b}
                        /\ allocator'.returned = (b \in SetBits(allocator))
    ]_vars


====
